---- MODULE Spec2Model ----
(***************************************************************************)
(* Model of three-jupyter: the floating-window registry                    *)
(* (src/src/floating-window-manager.ts, class FloatingWindowManager) and   *)
(* the notebook parser (src/src/utils/notebook-parser.ts).                 *)
(*                                                                         *)
(* The Map<string, FloatingWindow> is a sequence of records in insertion   *)
(* order (Map iteration order), the Set of listeners is a set of listener  *)
(* identities.  Every method is a function of the registry, and every call *)
(* of a method is one action.                                              *)
(*                                                                         *)
(* Spec         calls of the window methods, no listener registered        *)
(* SpecObserved calls of addListener, of the closures it returns and of    *)
(*              the window methods                                         *)
(* SpecParser   calls of parseNotebook, categorizeCells and                *)
(*              convertNotebookOutputs on JSON values                      *)
(* SpecWidget   the handlers of ThreeJupyterComponent and of its windows:  *)
(*              load, edit, run, kernel output, close and save             *)
(* SpecKernel   the kernel of ThreeJupyterComponent: the start after       *)
(*              mount, the start and stop buttons, the retries of          *)
(*              startKernelWithRetry, and the cleanup at unmount           *)
(***************************************************************************)
EXTENDS Integers, Sequences, FiniteSets, TLC

VARIABLES
  windows,      \* this.windows: the live records, in Map insertion order
  nextId,       \* this.nextId
  maxZIndex,    \* this.maxZIndex
  listeners,    \* this.listeners
  received,     \* per listener: the window lists it was called with during the last call
  last,         \* the last call: method name, id argument, return value, and whether
                \* it repeats the call before it
  before,       \* the registry (and handles) as it was when the last call started
  issued,       \* every id createWindow has returned, in order
  zLog,         \* every zIndex assignment so far, in order: the method and the value
  handles,      \* the closures addListener has returned, in order: the listener each
                \* one deletes and the number of times it has been called
  left,         \* number of calls that may still take effect (model bound)
  call,         \* the last call of a function of utils/notebook-parser.ts: the
                \* function, its argument and its outcome
  model,        \* context.model: the notebook document of the host
  loaded,       \* notebookLoadedRef.current
  timers,       \* the pending setTimeout callbacks of loadNotebook, in order
  rendered,     \* the windows state of ThreeJupyterComponent as last rendered
  initialOutputs, \* the initialOutputs of the records that were created with them
  outputs,      \* the outputs state of every mounted FloatingOutputWindow
  executing,    \* the mounted FloatingEditorWindows whose isExecuting is true
  executions,   \* the execute requests the kernel has not finished, in order
  repositioned, \* the records updatePosition has taken effect on
  mountedWith,  \* per mounted FloatingEditorWindow: the windows state of the render
                \* in which it mounted, which the closures of its mount effect keep
  mounted,      \* ThreeJupyterComponent is mounted
  initTimer,    \* the setTimeout of the mount effect: pending, fired or cleared
  initializationAttempted, \* initializationAttemptedRef.current
  isInitializing, \* the isInitializing state
  isKernelReady,  \* the isKernelReady state
  kernelRef,    \* kernelRef.current: null, or a kernel (its index in kernels)
  kernels,      \* the kernels manager.startNew has started: was shutdown() called
  starts,       \* the calls of startKernel that went on to startKernelWithRetry
  stops         \* the calls of stopKernel that await shutdown(), in order

kernelVars == <<mounted, initTimer, initializationAttempted, isInitializing, isKernelReady,
                kernelRef, kernels, starts, stops>>

widgetVars == <<model, loaded, timers, rendered, initialOutputs, outputs, executing,
                executions, mountedWith, kernelVars>>

vars == <<windows, nextId, maxZIndex, listeners, received, last, before,
          issued, zLog, handles, left, call, repositioned, widgetVars>>

----------------------------------------------------------------------------
(* Bounds of the model *)

MaxCalls == 4           \* at most this many calls take effect
MaxObservedCalls == 5   \* the same, where the listeners are observed
MaxCells == 3           \* at most this many elements in a cells array
MaxOutputs == 2         \* at most this many elements in an outputs array
MaxWidgetSteps == 4     \* at most this many handlers of the widget run
MaxStarts == 2          \* at most this many calls of startKernel go on to start a kernel

(* Program constants *)

InitialNextId == 1
InitialMaxZIndex == 1000
BaseOffset == 100
OffsetStep == 30
DefaultWidth == 700
OutputWidth == 800
DefaultHeight == 600
OutputGap == 20
NbFormat == 4
NbFormatMinor == 4
DefaultRetries == 3
DefaultDelay == 1000

(* Inputs *)

undefined == "undefined"
WindowType == {"editor", "output", "markdown"}
Listeners == {"L1", "L2"}
DefaultTitle == "Untitled"
DefaultContent == ""
Titles == {"T"}
Contents == {"c"}
Positions == {<<130, 130>>}
Sizes == {<<300, 200>>}

WindowId(n) == "window-" \o ToString(n)

\* id arguments of the methods: ids that are live, closed or not issued yet
IdArgs == {WindowId(1), WindowId(2), WindowId(3)}
\* (type, linkedWindowId) arguments of createWindow: every type without a link,
\* and links to an id that is live, closed, not issued yet or the record's own
CreateArgs ==
  (WindowType \X {undefined}) \cup
  {<<"output", WindowId(1)>>, <<"output", WindowId(2)>>, <<"editor", WindowId(1)>>}
\* the same, where the listeners are observed
ObservedCreateArgs == {<<"editor", undefined>>, <<"output", WindowId(1)>>}

----------------------------------------------------------------------------
(* Map and Set helpers *)

Has(ws, id) == \E i \in DOMAIN ws : ws[i].id = id
Get(ws, id) == ws[CHOOSE i \in DOMAIN ws : ws[i].id = id]
IndexOf(ws, id) == CHOOSE i \in DOMAIN ws : ws[i].id = id

\* Map.set of a record: replaces the value of an existing key, else appends
MapSet(ws, w) ==
  IF Has(ws, w.id) THEN [ws EXCEPT ![IndexOf(ws, w.id)] = w] ELSE Append(ws, w)

\* Map.delete
MapDelete(ws, id) ==
  LET keep(w) == w.id # id IN SelectSeq(ws, keep)

RECURSIVE DeleteEach(_, _)
\* linkedWindows.forEach(w => this.windows.delete(w.id))
DeleteEach(ws, doomed) ==
  IF doomed = <<>> THEN ws
  ELSE DeleteEach(MapDelete(ws, Head(doomed).id), Tail(doomed))

NoCalls == [l \in Listeners |-> <<>>]

\* notifyListeners: every registered listener is called once with the current list
notifyListeners(ws, ls, rcv) ==
  LET windowList == ws
  IN [l \in Listeners |-> IF l \in ls THEN Append(rcv[l], windowList) ELSE rcv[l]]

getWindow(id) == IF Has(windows, id) THEN Get(windows, id) ELSE undefined
getAllWindows == windows

\* the registry object: its four private fields
Registry == [windows |-> windows, nextId |-> nextId, maxZIndex |-> maxZIndex,
             listeners |-> listeners]

\* the registry after a method call, the calls the listeners got and the return value
Result(ws, nid, mz, ls, rcv, ret) ==
  [windows |-> ws, nextId |-> nid, maxZIndex |-> mz, listeners |-> ls,
   received |-> rcv, ret |-> ret]

\* early return: nothing assigned, nobody notified
Unchanged(r) ==
  Result(r.windows, r.nextId, r.maxZIndex, r.listeners, NoCalls, undefined)

\* what is recorded when a call starts
Snapshot == [windows |-> windows, nextId |-> nextId, maxZIndex |-> maxZIndex,
             listeners |-> listeners, handles |-> handles]

\* the record of a call.  again: -1, or, when the call before it was the same method
\* with the same argument, the number of records that earlier call removed
Call(name, id, ret) ==
  [name |-> name, id |-> id, ret |-> ret,
   again |-> IF last.name = name /\ last.id = id
             THEN Len(before.windows) - Len(windows) ELSE -1]

----------------------------------------------------------------------------
\* a new FloatingWindowManager
InitRegistry ==
  /\ windows = <<>>
  /\ nextId = InitialNextId
  /\ maxZIndex = InitialMaxZIndex
  /\ listeners = {}
  /\ received = NoCalls
  /\ last = [name |-> "new", id |-> undefined, ret |-> undefined, again |-> -1]
  /\ before = [windows |-> <<>>, nextId |-> InitialNextId,
               maxZIndex |-> InitialMaxZIndex, listeners |-> {}, handles |-> <<>>]
  /\ issued = <<>>
  /\ zLog = <<>>
  /\ handles = <<>>
  /\ repositioned = {}

\* no function of the parser has been called
NoCall == [fn |-> "none"]

\* a registry on its own: no ThreeJupyterComponent, no context, no kernel
NoWidget ==
  /\ model = [t |-> "undefined"]
  /\ loaded = FALSE
  /\ timers = <<>>
  /\ rendered = <<>>
  /\ initialOutputs = <<>>
  /\ outputs = <<>>
  /\ executing = {}
  /\ executions = <<>>
  /\ mountedWith = <<>>

null == "null"
KernelId(n) == "kernel-" \o ToString(n)

\* no ThreeJupyterComponent: nothing mounted, no kernel
NoKernel ==
  /\ mounted = FALSE
  /\ initTimer = "cleared"
  /\ initializationAttempted = FALSE
  /\ isInitializing = FALSE
  /\ isKernelReady = FALSE
  /\ kernelRef = null
  /\ kernels = <<>>
  /\ starts = <<>>
  /\ stops = <<>>

Init == InitRegistry /\ left = MaxCalls /\ call = NoCall /\ NoWidget /\ NoKernel

InitObserved ==
  InitRegistry /\ left = MaxObservedCalls /\ call = NoCall /\ NoWidget /\ NoKernel

----------------------------------------------------------------------------
(* The methods of FloatingWindowManager, as functions of the registry r *)

\* returns a new closure over listener
addListener(r, listener) ==
  Result(r.windows, r.nextId, r.maxZIndex, r.listeners \cup {listener}, NoCalls, "closure")

\* unregister, were it to empty the listener set
unregister_ClearsAll(r, listener) ==
  Result(r.windows, r.nextId, r.maxZIndex, {}, NoCalls,
         IF listener \in r.listeners THEN "true" ELSE "false")

\* the closure addListener returns: () => this.listeners.delete(listener)
unregister(r, listener) ==
  Result(r.windows, r.nextId, r.maxZIndex, r.listeners \ {listener}, NoCalls,
         IF listener \in r.listeners THEN "true" ELSE "false")

\* createWindow, were it to take the zIndex from the live records
createWindow_ZFromLive(r, type, title, content, linkedWindowId) ==
  LET id == WindowId(r.nextId)
      top == IF r.windows = <<>> THEN InitialMaxZIndex
             ELSE CHOOSE z \in {r.windows[i].zIndex : i \in DOMAIN r.windows} :
                    \A i \in DOMAIN r.windows : r.windows[i].zIndex <= z
      offsetMultiplier == Len(r.windows)
      newWindow == [id |-> id, type |-> type, title |-> title,
                    x |-> BaseOffset + (offsetMultiplier * OffsetStep),
                    y |-> BaseOffset + (offsetMultiplier * OffsetStep),
                    width |-> IF type = "output" THEN OutputWidth ELSE DefaultWidth,
                    height |-> DefaultHeight,
                    zIndex |-> top + 1, isMinimized |-> FALSE,
                    content |-> content, linkedWindowId |-> linkedWindowId]
      ws == MapSet(r.windows, newWindow)
  IN Result(ws, r.nextId + 1, top + 1, r.listeners,
            notifyListeners(ws, r.listeners, NoCalls), id)

\* createWindow, were it to offset by the number of ids handed out
createWindow_OffsetByIds(r, type, title, content, linkedWindowId) ==
  LET id == WindowId(r.nextId)
      offsetMultiplier == r.nextId - 1
      newWindow == [id |-> id, type |-> type, title |-> title,
                    x |-> BaseOffset + (offsetMultiplier * OffsetStep),
                    y |-> BaseOffset + (offsetMultiplier * OffsetStep),
                    width |-> IF type = "output" THEN OutputWidth ELSE DefaultWidth,
                    height |-> DefaultHeight,
                    zIndex |-> r.maxZIndex + 1, isMinimized |-> FALSE,
                    content |-> content, linkedWindowId |-> linkedWindowId]
      ws == MapSet(r.windows, newWindow)
  IN Result(ws, r.nextId + 1, r.maxZIndex + 1, r.listeners,
            notifyListeners(ws, r.listeners, NoCalls), id)

createWindow(r, type, title, content, linkedWindowId) ==
  LET id == WindowId(r.nextId)
      nextId1 == r.nextId + 1
      defaultWidth == IF type = "output" THEN OutputWidth ELSE DefaultWidth
      defaultHeight == IF type = "output" THEN DefaultHeight ELSE DefaultHeight
      offsetMultiplier == Len(r.windows)
      maxZIndex1 == r.maxZIndex + 1
      newWindow == [id |-> id, type |-> type, title |-> title,
                    x |-> BaseOffset + (offsetMultiplier * OffsetStep),
                    y |-> BaseOffset + (offsetMultiplier * OffsetStep),
                    width |-> defaultWidth, height |-> defaultHeight,
                    zIndex |-> maxZIndex1, isMinimized |-> FALSE,
                    content |-> content, linkedWindowId |-> linkedWindowId]
      ws == MapSet(r.windows, newWindow)
  IN Result(ws, nextId1, maxZIndex1, r.listeners,
            notifyListeners(ws, r.listeners, NoCalls), id)

\* closeWindow, were it to remove the one record only
closeWindow_NoCascade(r, id) ==
  IF ~Has(r.windows, id) THEN Unchanged(r)
  ELSE
    LET ws == MapDelete(r.windows, id)
    IN Result(ws, r.nextId, r.maxZIndex, r.listeners,
              notifyListeners(ws, r.listeners, NoCalls), undefined)

RECURSIVE DeleteEachNotifying(_, _, _, _)
\* the cascade, were it to notify after every removal: the records and the calls
DeleteEachNotifying(ws, doomed, ls, rcv) ==
  IF doomed = <<>> THEN [windows |-> ws, received |-> rcv]
  ELSE LET ws1 == MapDelete(ws, Head(doomed).id)
       IN DeleteEachNotifying(ws1, Tail(doomed), ls, notifyListeners(ws1, ls, rcv))

\* closeWindow, were it to notify after every removal
closeWindow_NotifyEach(r, id) ==
  IF ~Has(r.windows, id) THEN Unchanged(r)
  ELSE
    LET window == Get(r.windows, id)
        linked(w) == w.linkedWindowId = id
        linkedWindows == SelectSeq(r.windows, linked)
        c == IF window.type = "editor"
             THEN DeleteEachNotifying(r.windows, linkedWindows, r.listeners, NoCalls)
             ELSE [windows |-> r.windows, received |-> NoCalls]
        ws2 == MapDelete(c.windows, id)
    IN Result(ws2, r.nextId, r.maxZIndex, r.listeners,
              notifyListeners(ws2, r.listeners, c.received), undefined)

\* closeWindow, were the cascade to run for a record of every type
closeWindow_CascadeForAll(r, id) ==
  IF ~Has(r.windows, id) THEN Unchanged(r)
  ELSE
    LET linked(w) == w.linkedWindowId = id
        linkedWindows == SelectSeq(r.windows, linked)
        ws1 == DeleteEach(r.windows, linkedWindows)
        ws2 == MapDelete(ws1, id)
    IN Result(ws2, r.nextId, r.maxZIndex, r.listeners,
              notifyListeners(ws2, r.listeners, NoCalls), undefined)

closeWindow(r, id) ==
  IF ~Has(r.windows, id) THEN Unchanged(r)
  ELSE
    LET window == Get(r.windows, id)
        linked(w) == w.linkedWindowId = id
        linkedWindows == SelectSeq(r.windows, linked)
        ws1 == IF window.type = "editor" THEN DeleteEach(r.windows, linkedWindows)
               ELSE r.windows
        ws2 == MapDelete(ws1, id)
    IN Result(ws2, r.nextId, r.maxZIndex, r.listeners,
              notifyListeners(ws2, r.listeners, NoCalls), undefined)

\* minimizeWindow, were it to raise the record as well
minimizeWindow_AlsoRaises(r, id) ==
  IF ~Has(r.windows, id) THEN Unchanged(r)
  ELSE
    LET window == Get(r.windows, id)
        maxZIndex1 == r.maxZIndex + 1
        ws == MapSet(r.windows, [window EXCEPT !.isMinimized = ~window.isMinimized,
                                               !.zIndex = maxZIndex1])
    IN Result(ws, r.nextId, maxZIndex1, r.listeners,
              notifyListeners(ws, r.listeners, NoCalls), undefined)

minimizeWindow(r, id) ==
  IF ~Has(r.windows, id) THEN Unchanged(r)
  ELSE
    LET window == Get(r.windows, id)
        ws == MapSet(r.windows, [window EXCEPT !.isMinimized = ~window.isMinimized])
    IN Result(ws, r.nextId, r.maxZIndex, r.listeners,
              notifyListeners(ws, r.listeners, NoCalls), undefined)

\* bringToFront, were it to read maxZIndex before incrementing it
bringToFront_PostIncrement(r, id) ==
  IF ~Has(r.windows, id) THEN Unchanged(r)
  ELSE
    LET window == Get(r.windows, id)
        ws == MapSet(r.windows, [window EXCEPT !.zIndex = r.maxZIndex])
    IN Result(ws, r.nextId, r.maxZIndex + 1, r.listeners,
              notifyListeners(ws, r.listeners, NoCalls), undefined)

\* bringToFront, were it to leave the record that is on top already
bringToFront_SkipTop(r, id) ==
  IF ~Has(r.windows, id) THEN Unchanged(r)
  ELSE
    LET window == Get(r.windows, id)
        maxZIndex1 == r.maxZIndex + 1
        ws == IF window.zIndex = r.maxZIndex THEN r.windows
              ELSE MapSet(r.windows, [window EXCEPT !.zIndex = maxZIndex1])
    IN Result(ws, r.nextId, IF window.zIndex = r.maxZIndex THEN r.maxZIndex ELSE maxZIndex1,
              r.listeners, notifyListeners(ws, r.listeners, NoCalls), undefined)

bringToFront(r, id) ==
  IF ~Has(r.windows, id) THEN Unchanged(r)
  ELSE
    LET window == Get(r.windows, id)
        maxZIndex1 == r.maxZIndex + 1
        ws == MapSet(r.windows, [window EXCEPT !.zIndex = maxZIndex1])
    IN Result(ws, r.nextId, maxZIndex1, r.listeners,
              notifyListeners(ws, r.listeners, NoCalls), undefined)

updatePosition(r, id, x, y) ==
  IF ~Has(r.windows, id) THEN Unchanged(r)
  ELSE
    LET window == Get(r.windows, id)
        ws == MapSet(r.windows, [window EXCEPT !.x = x, !.y = y])
    IN Result(ws, r.nextId, r.maxZIndex, r.listeners,
              notifyListeners(ws, r.listeners, NoCalls), undefined)

updateSize(r, id, width, height) ==
  IF ~Has(r.windows, id) THEN Unchanged(r)
  ELSE
    LET window == Get(r.windows, id)
        ws == MapSet(r.windows, [window EXCEPT !.width = width, !.height = height])
    IN Result(ws, r.nextId, r.maxZIndex, r.listeners,
              notifyListeners(ws, r.listeners, NoCalls), undefined)

updateContent(r, id, content) ==
  IF ~Has(r.windows, id) THEN Unchanged(r)
  ELSE
    LET window == Get(r.windows, id)
        ws == MapSet(r.windows, [window EXCEPT !.content = content])
    IN Result(ws, r.nextId, r.maxZIndex, r.listeners,
              notifyListeners(ws, r.listeners, NoCalls), undefined)

\* updateTitle, were it to guard the assignment only and notify in any case
updateTitle_NotifiesAlways(r, id, title) ==
  LET ws == IF ~Has(r.windows, id) THEN r.windows
            ELSE MapSet(r.windows, [Get(r.windows, id) EXCEPT !.title = title])
  IN Result(ws, r.nextId, r.maxZIndex, r.listeners,
            notifyListeners(ws, r.listeners, NoCalls), undefined)

updateTitle(r, id, title) ==
  IF ~Has(r.windows, id) THEN Unchanged(r)
  ELSE
    LET window == Get(r.windows, id)
        ws == MapSet(r.windows, [window EXCEPT !.title = title])
    IN Result(ws, r.nextId, r.maxZIndex, r.listeners,
              notifyListeners(ws, r.listeners, NoCalls), undefined)

\* clearAllWindows, were it to start the ids again
clearAllWindows_ResetIds(r) ==
  Result(<<>>, InitialNextId, r.maxZIndex, r.listeners,
         notifyListeners(<<>>, r.listeners, NoCalls), undefined)

clearAllWindows(r) ==
  Result(<<>>, r.nextId, r.maxZIndex, r.listeners,
         notifyListeners(<<>>, r.listeners, NoCalls), undefined)

----------------------------------------------------------------------------
(* One action per call of a method *)

\* the call takes the registry to res; last, before and received record the call
Do(name, id, res) ==
  /\ windows' = res.windows
  /\ nextId' = res.nextId
  /\ maxZIndex' = res.maxZIndex
  /\ listeners' = res.listeners
  /\ received' = res.received
  /\ last' = Call(name, id, res.ret)
  /\ before' = Snapshot
  /\ repositioned' = repositioned \cup
                     (IF name = "updatePosition" /\ Has(windows, id) THEN {id} ELSE {})
  /\ UNCHANGED <<call, widgetVars>>

\* a call that takes effect is counted against the bound
Counted(effective) ==
  /\ effective => left > 0
  /\ left' = IF effective THEN left - 1 ELSE left

AddListener(l) ==
  /\ Counted(TRUE)
  /\ Do("addListener", l, addListener(Registry, l))
  /\ handles' = Append(handles, [listener |-> l, called |-> 0])
  /\ UNCHANGED <<issued, zLog>>

\* a call of the h-th closure addListener has returned
Unregister(h) ==
  /\ Counted(TRUE)
  /\ Do("unregister", handles[h].listener, unregister(Registry, handles[h].listener))
  /\ handles' = [handles EXCEPT ![h].called = @ + 1]
  /\ UNCHANGED <<issued, zLog>>

CreateWindow(type, title, content, linkedWindowId) ==
  /\ Counted(TRUE)
  /\ LET res == createWindow(Registry, type, title, content, linkedWindowId)
     IN /\ Do("createWindow", res.ret, res)
        /\ issued' = Append(issued, res.ret)
        /\ zLog' = Append(zLog, [by |-> "createWindow",
                                 z |-> Get(res.windows, res.ret).zIndex])
  /\ UNCHANGED handles

CloseWindow(id) ==
  /\ Counted(Has(windows, id))
  /\ Do("closeWindow", id, closeWindow(Registry, id))
  /\ UNCHANGED <<issued, zLog, handles>>

BringToFront(id) ==
  /\ Counted(Has(windows, id))
  /\ LET res == bringToFront(Registry, id)
     IN /\ Do("bringToFront", id, res)
        /\ zLog' = IF Has(windows, id)
                   THEN Append(zLog, [by |-> "bringToFront",
                                      z |-> Get(res.windows, id).zIndex])
                   ELSE zLog
  /\ UNCHANGED <<issued, handles>>

\* a single-field update
Edit(name, id, res) ==
  /\ Counted(Has(windows, id))
  /\ Do(name, id, res)
  /\ UNCHANGED <<issued, zLog, handles>>

MinimizeWindow(id) == Edit("minimizeWindow", id, minimizeWindow(Registry, id))

UpdatePosition(id, x, y) == Edit("updatePosition", id, updatePosition(Registry, id, x, y))

UpdateSize(id, width, height) ==
  Edit("updateSize", id, updateSize(Registry, id, width, height))

UpdateContent(id, content) == Edit("updateContent", id, updateContent(Registry, id, content))

UpdateTitle(id, title) == Edit("updateTitle", id, updateTitle(Registry, id, title))

ClearAllWindows ==
  /\ Counted(TRUE)
  /\ Do("clearAllWindows", undefined, clearAllWindows(Registry))
  /\ UNCHANGED <<issued, zLog, handles>>

\* calls of the window methods, createWindow with (type, linkedWindowId) from args
WindowCalls(args) ==
  \/ \E a \in args : CreateWindow(a[1], DefaultTitle, DefaultContent, a[2])
  \/ \E id \in IdArgs : CloseWindow(id)
  \/ \E id \in IdArgs : MinimizeWindow(id)
  \/ \E id \in IdArgs : BringToFront(id)
  \/ \E id \in IdArgs, p \in Positions : UpdatePosition(id, p[1], p[2])
  \/ \E id \in IdArgs, s \in Sizes : UpdateSize(id, s[1], s[2])
  \/ \E id \in IdArgs, content \in Contents : UpdateContent(id, content)
  \/ \E id \in IdArgs, title \in Titles : UpdateTitle(id, title)
  \/ ClearAllWindows

ListenerCalls ==
  \/ \E l \in Listeners : AddListener(l)
  \/ \E h \in DOMAIN handles : Unregister(h)

\* the registry without observers
Next == WindowCalls(CreateArgs)

Spec == Init /\ [][Next]_vars

\* the registry with observers
NextObserved == ListenerCalls \/ WindowCalls(ObservedCreateArgs)

SpecObserved == InitObserved /\ [][NextObserved]_vars

----------------------------------------------------------------------------
(* JSON values, as JavaScript sees them: every value carries its type *)

JNull == [t |-> "null"]
JUndefined == [t |-> "undefined"]
JBoolean(b) == [t |-> "boolean", v |-> b]
JNumber(n) == [t |-> "number", v |-> n]
JString(s) == [t |-> "string", v |-> s]
JArray(a) == [t |-> "array", v |-> a]
\* an object: a function from its own property names to their values
JObject(o) == [t |-> "object", v |-> o]

\* the outcome of evaluating code that may throw
Thrown == [threw |-> TRUE]
Returned(v) == [threw |-> FALSE, value |-> v]

\* v.k throws a TypeError on null and undefined
PropThrows(v) == v.t \in {"null", "undefined"}
\* v.k, v[k] on any other value: the own property, else undefined
Prop(v, k) == IF v.t = "object" /\ k \in DOMAIN v.v THEN v.v[k] ELSE JUndefined

isArray(v) == v.t = "array"

\* ToBoolean
Truthy(v) ==
  CASE v.t \in {"null", "undefined"} -> FALSE
    [] v.t = "boolean" -> v.v
    [] v.t = "number" -> v.v # 0
    [] v.t = "string" -> v.v # ""
    [] OTHER -> TRUE

\* a || b
Or(a, b) == IF Truthy(a) THEN a ELSE b
\* a ?? b
Coalesce(a, b) == IF a.t \in {"null", "undefined"} THEN b ELSE a

RECURSIVE String(_), join(_, _)
\* ToString, as in a template literal
String(v) ==
  CASE v.t = "string" -> v.v
    [] v.t = "number" -> ToString(v.v)
    [] v.t = "boolean" -> IF v.v THEN "true" ELSE "false"
    [] v.t = "null" -> "null"
    [] v.t = "undefined" -> "undefined"
    [] v.t = "array" -> join(v.v, ",")
    [] OTHER -> "[object Object]"

\* Array.prototype.join: null and undefined elements give the empty string
join(a, separator) ==
  LET element(v) == IF v.t \in {"null", "undefined"} THEN "" ELSE String(v)
  IN IF a = <<>> THEN ""
     ELSE IF Len(a) = 1 THEN element(a[1])
     ELSE element(a[1]) \o separator \o join(Tail(a), separator)

RECURSIVE Quote(_)
\* the characters of a string inside a JSON string literal
Quote(s) ==
  IF s = "" THEN ""
  ELSE LET c == Head(s)
       IN (CASE c = "\"" -> "\\\""
             [] c = "\\" -> "\\\\"
             [] c = "\n" -> "\\n"
             [] OTHER -> c) \o Quote(Tail(s))

\* the order in which the properties of the objects of this model were inserted
KeyOrder == <<"text/html", "text/plain", "image/png", "image/jpeg", "application/json">>

RECURSIVE stringify(_, _)
\* JSON.stringify(v, null, 2), inside indentation indent
stringify(v, indent) ==
  LET inner == indent \o "  "
      RECURSIVE items(_)
      items(a) ==
        IF a = <<>> THEN ""
        ELSE inner \o stringify(Head(a), inner) \o
             (IF Len(a) = 1 THEN "\n" ELSE ",\n") \o items(Tail(a))
      own(k) == k \in DOMAIN v.v
      keys == SelectSeq(KeyOrder, own)
      RECURSIVE members(_)
      members(ks) ==
        IF ks = <<>> THEN ""
        ELSE inner \o "\"" \o Quote(Head(ks)) \o "\": " \o stringify(v.v[Head(ks)], inner) \o
             (IF Len(ks) = 1 THEN "\n" ELSE ",\n") \o members(Tail(ks))
  IN CASE v.t = "string" -> "\"" \o Quote(v.v) \o "\""
       [] v.t = "number" -> ToString(v.v)
       [] v.t = "boolean" -> IF v.v THEN "true" ELSE "false"
       [] v.t = "array" -> IF v.v = <<>> THEN "[]" ELSE "[\n" \o items(v.v) \o indent \o "]"
       [] v.t = "object" -> IF keys = <<>> THEN "{}" ELSE "{\n" \o members(keys) \o indent \o "}"
       [] OTHER -> "null"

\* JSON.parse, on the texts of this model
JSONparse(text) ==
  CASE text = "null" -> Returned(JNull)
    [] text = "7" -> Returned(JNumber(7))
    [] text = "{\"cells\":\"not-an-array\"}" ->
         Returned(JObject([cells |-> JString("not-an-array")]))
    [] text = "{\"cells\":[{\"cell_type\":\"markdown\",\"source\":\"# t\"}]}" ->
         Returned(JObject([cells |-> JArray(<<JObject([cell_type |-> JString("markdown"),
                                                        source |-> JString("# t")])>>)]))
    [] OTHER -> Thrown   \* SyntaxError

----------------------------------------------------------------------------
(* utils/notebook-parser.ts *)

\* cellSource, were the lines joined by newlines
cellSource_JoinNewline(cell) ==
  IF isArray(Prop(cell, "source")) THEN join(Prop(cell, "source").v, "\n")
  ELSE IF Prop(cell, "source").t = "string" THEN Prop(cell, "source").v
  ELSE ""

\* let source = ''; if (Array.isArray(cell.source)) ... else if (typeof ... === 'string') ...
cellSource(cell) ==
  IF isArray(Prop(cell, "source")) THEN join(Prop(cell, "source").v, "")
  ELSE IF Prop(cell, "source").t = "string" THEN Prop(cell, "source").v
  ELSE ""

RECURSIVE pushCells(_, _)
\* for (const cell of data.cells) { ... cells.push(...) }; return cells
pushCells(todo, cells) ==
  IF todo = <<>> THEN Returned(cells)
  ELSE
    LET cell == Head(todo)
    IN IF PropThrows(cell) THEN Thrown
       ELSE IF ~Truthy(Prop(cell, "cell_type")) THEN pushCells(Tail(todo), cells)
       ELSE pushCells(Tail(todo),
              Append(cells,
                JObject([cell_type |-> Prop(cell, "cell_type"),
                         source |-> JString(cellSource(cell)),
                         metadata |-> Or(Prop(cell, "metadata"), JObject(<<>>)),
                         execution_count |-> Coalesce(Prop(cell, "execution_count"), JNull),
                         outputs |-> Or(Prop(cell, "outputs"), JArray(<<>>))])))

\* the body of the try block of parseNotebook
parseBody(notebookData) ==
  LET parsed == IF notebookData.t = "string" THEN JSONparse(notebookData.v)
                ELSE Returned(notebookData)
  IN IF parsed.threw THEN Thrown
     ELSE LET data == parsed.value
          IN IF ~Truthy(data) \/ ~isArray(Prop(data, "cells")) THEN Returned(<<>>)
             ELSE pushCells(Prop(data, "cells").v, <<>>)

\* parseNotebook, were it without the try and catch
parseNotebook_NoCatch(notebookData) == parseBody(notebookData)

\* try { ... } catch (error) { return []; }
parseNotebook(notebookData) ==
  IF parseBody(notebookData).threw THEN Returned(<<>>) ELSE parseBody(notebookData)

RECURSIVE categorizeLoop(_, _, _)
\* for (const cell of cells) { if ... codeCells.push(cell) else if ... markdownCells.push(cell) }
categorizeLoop(todo, codeCells, markdownCells) ==
  IF todo = <<>> THEN [codeCells |-> codeCells, markdownCells |-> markdownCells]
  ELSE
    LET cell == Head(todo)
    IN IF Prop(cell, "cell_type") = JString("code")
       THEN categorizeLoop(Tail(todo), Append(codeCells, cell), markdownCells)
       ELSE IF Prop(cell, "cell_type") = JString("markdown")
       THEN categorizeLoop(Tail(todo), codeCells, Append(markdownCells, cell))
       ELSE categorizeLoop(Tail(todo), codeCells, markdownCells)

\* categorizeCells, were every cell that is not a code cell a markdown cell
categorizeCells_ElseMarkdown(cells) ==
  LET code(cell) == Prop(cell, "cell_type") = JString("code")
      other(cell) == ~code(cell)
  IN Returned([codeCells |-> SelectSeq(cells, code),
               markdownCells |-> SelectSeq(cells, other)])

categorizeCells(cells) == Returned(categorizeLoop(cells, <<>>, <<>>))

\* the item of one output: none (item stays null), or the OutputItem
NoItem == [none |-> TRUE]
Item(type, content, now) ==
  [none |-> FALSE, item |-> [type |-> type, content |-> content, timestamp |-> now]]

\* data['text/html'] ? ... : data['text/plain'] ? ... : ...
displayContent(data) ==
  LET text(v) == IF isArray(v) THEN JString(join(v.v, "")) ELSE v
      image(mime, v) ==
        JString("<img src=\"data:" \o mime \o ";base64," \o
                String(IF isArray(v) THEN JString(join(v.v, "")) ELSE v) \o "\" />")
  IN IF Truthy(Prop(data, "text/html")) THEN text(Prop(data, "text/html"))
     ELSE IF Truthy(Prop(data, "text/plain")) THEN text(Prop(data, "text/plain"))
     ELSE IF Truthy(Prop(data, "image/png")) THEN image("image/png", Prop(data, "image/png"))
     ELSE IF Truthy(Prop(data, "image/jpeg")) THEN image("image/jpeg", Prop(data, "image/jpeg"))
     ELSE JString(stringify(data, ""))

\* errorText, were the traceback lines put together without newlines
errorText_TracebackUnseparated(output) ==
  LET ename == Or(Prop(output, "ename"), JString("Error"))
      evalue == Or(Prop(output, "evalue"), JString(""))
      traceback == Or(Prop(output, "traceback"), JArray(<<>>))
  IN String(ename) \o ": " \o String(evalue) \o "\n" \o
     (IF isArray(traceback) THEN join(traceback.v, "") ELSE "")

\* the error case of the switch
errorText(output) ==
  LET ename == Or(Prop(output, "ename"), JString("Error"))
      evalue == Or(Prop(output, "evalue"), JString(""))
      traceback == Or(Prop(output, "traceback"), JArray(<<>>))
  IN String(ename) \o ": " \o String(evalue) \o "\n" \o
     (IF isArray(traceback) THEN join(traceback.v, "\n") ELSE "")

\* convertOutput, were the default case to make a stream item
convertOutput_DefaultItem(output, now) ==
  LET outputType == Prop(output, "output_type")
  IN CASE outputType \in {JString("execute_result"), JString("display_data")} ->
            Item(outputType.v, displayContent(Or(Prop(output, "data"), JObject(<<>>))), now)
       [] outputType = JString("error") -> Item("error", JString(errorText(output)), now)
       [] OTHER ->
            LET text == Or(Prop(output, "text"), JString(""))
                streamText == IF isArray(text) THEN JString(join(text.v, "")) ELSE text
            IN Item("stream", streamText, now)

\* switch (outputType) { ... }
convertOutput(output, now) ==
  LET outputType == Prop(output, "output_type")
  IN CASE outputType = JString("stream") ->
            LET text == Or(Prop(output, "text"), JString(""))
                streamText == IF isArray(text) THEN JString(join(text.v, "")) ELSE text
            IN Item("stream", streamText, now)
       [] outputType \in {JString("execute_result"), JString("display_data")} ->
            Item(outputType.v, displayContent(Or(Prop(output, "data"), JObject(<<>>))), now)
       [] outputType = JString("error") -> Item("error", JString(errorText(output)), now)
       [] OTHER -> NoItem

RECURSIVE convertLoop(_, _, _)
\* for (const output of notebookOutputs) { ... if (item) outputItems.push(item) }
convertLoop(todo, outputItems, now) ==
  IF todo = <<>> THEN Returned(outputItems)
  ELSE
    LET output == Head(todo)
    IN IF PropThrows(output) THEN Thrown
       ELSE LET converted == convertOutput(output, now)
            IN convertLoop(Tail(todo),
                           IF converted.none THEN outputItems
                           ELSE Append(outputItems, converted.item), now)

\* now: the value of Date.now() during the call
convertNotebookOutputs(notebookOutputs, now) ==
  IF ~isArray(notebookOutputs) \/ Len(notebookOutputs.v) = 0 THEN Returned(<<>>)
  ELSE convertLoop(notebookOutputs.v, <<>>, now)

----------------------------------------------------------------------------
(* Calls of the parser *)

\* the sequences over S of length at most n
SeqsUpTo(S, n) == UNION {[1..k -> S] : k \in 0..n}

\* elements of a cells array: cells of every cell_type, with source as lines, as a
\* string or absent; an unknown and an absent cell_type; values that are no objects
CellInputs ==
  {JObject([cell_type |-> JString("code"),
            source |-> JArray(<<JString("a\n"), JString("b\n")>>)]),
   JObject([cell_type |-> JString("markdown"), source |-> JString("# t")]),
   JObject([cell_type |-> JString("raw")]),
   JObject([cell_type |-> JString("code"), source |-> JString("x"),
            execution_count |-> JNumber(0),
            outputs |-> JArray(<<JObject([output_type |-> JString("stream"),
                                          text |-> JString("s")])>>)]),
   JObject([cell_type |-> JString("heading"), source |-> JString("h")]),
   JObject([source |-> JString("z")]),
   JNull,
   JNumber(7)}

\* arguments of parseNotebook: documents with a cells array, documents without one,
\* values that are no documents, texts that are JSON and texts that are not
NotebookInputs ==
  {JObject([cells |-> JArray(cells)]) : cells \in SeqsUpTo(CellInputs, MaxCells)} \cup
  {JObject([cells |-> JString("not-an-array")]), JObject([cells |-> JNull]),
   JObject([nbformat |-> JNumber(4)]), JObject(<<>>), JArray(<<>>),
   JNull, JUndefined, JNumber(7), JBoolean(TRUE),
   JString("null"), JString("7"), JString(""), JString("{\"cells\":"),
   JString("{\"cells\":\"not-an-array\"}"),
   JString("{\"cells\":[{\"cell_type\":\"markdown\",\"source\":\"# t\"}]}")}

MimeTypes == {"text/html", "text/plain", "image/png", "image/jpeg"}
MimeValue ==
  "text/html" :> JString("<b>h</b>") @@
  "text/plain" :> JArray(<<JString("p"), JString("q")>>) @@
  "image/png" :> JString("iVBOR") @@
  "image/jpeg" :> JArray(<<JString("/9j"), JString("/4")>>)

\* data maps: every combination of the four mime types, another mime type only,
\* and entries that are empty
DataInputs ==
  {JObject([k \in K |-> MimeValue[k]]) : K \in SUBSET MimeTypes} \cup
  {JObject("application/json" :> JNumber(7)),
   JObject("text/plain" :> JString("")),
   JObject("text/html" :> JString("") @@ "text/plain" :> JString("p"))}

\* elements of an outputs array
OutputInputs ==
  {JObject([output_type |-> JString("stream"), name |-> JString("stdout"),
            text |-> JArray(<<JString("a\n"), JString("b")>>)]),
   JObject([output_type |-> JString("stream"), name |-> JString("stderr"),
            text |-> JString("s")]),
   JObject([output_type |-> JString("stream"), name |-> JString("stdout")])} \cup
  {JObject([output_type |-> JString("execute_result"), data |-> data]) :
     data \in DataInputs} \cup
  {JObject([output_type |-> JString("display_data"), data |-> data]) :
     data \in {JObject("image/png" :> MimeValue["image/png"]),
                JObject("text/plain" :> MimeValue["text/plain"])}} \cup
  {JObject([output_type |-> JString("display_data")]),
   JObject([output_type |-> JString("error"), ename |-> JString("ValueError"),
            evalue |-> JString("bad"),
            traceback |-> JArray(<<JString("l1"), JString("l2")>>)]),
   JObject([output_type |-> JString("error"), evalue |-> JString("bad"),
            traceback |-> JArray(<<JString("l1")>>)]),
   JObject([output_type |-> JString("error"), ename |-> JString("E")]),
   JObject([output_type |-> JString("error"), ename |-> JString(""),
            evalue |-> JString(""), traceback |-> JArray(<<>>)]),
   JObject([output_type |-> JString("error"), ename |-> JNull, evalue |-> JNull]),
   JObject([output_type |-> JString("update_display_data"),
            data |-> JObject("text/plain" :> JString("u"))]),
   JObject([data |-> JObject("text/plain" :> JString("n"))])}

\* values of Date.now()
Clock == {1, 2}

registryVars == <<windows, nextId, maxZIndex, listeners, received, last, before,
                  issued, zLog, handles, left, repositioned>>

ParseNotebook(notebookData) ==
  /\ call = NoCall
  /\ call' = [fn |-> "parseNotebook", arg |-> notebookData,
              out |-> parseNotebook(notebookData)]
  /\ UNCHANGED <<registryVars, widgetVars>>

\* categorizeCells applied to what parseNotebook returned
CategorizeCells ==
  /\ call.fn = "parseNotebook"
  /\ call' = [fn |-> "categorizeCells", arg |-> call.out.value,
              out |-> categorizeCells(call.out.value)]
  /\ UNCHANGED <<registryVars, widgetVars>>

ConvertNotebookOutputs(notebookOutputs, now) ==
  /\ call = NoCall
  /\ call' = [fn |-> "convertNotebookOutputs", arg |-> notebookOutputs,
              out |-> convertNotebookOutputs(notebookOutputs, now)]
  /\ UNCHANGED <<registryVars, widgetVars>>

InitParser == InitRegistry /\ left = 0 /\ call = NoCall /\ NoWidget /\ NoKernel

NextParser ==
  \/ \E notebookData \in NotebookInputs : ParseNotebook(notebookData)
  \/ CategorizeCells
  \/ \E elements \in SeqsUpTo(OutputInputs, MaxOutputs), now \in Clock :
       ConvertNotebookOutputs(JArray(elements), now)
  \/ \E notebookOutputs \in {JNull, JUndefined, JString("s")}, now \in Clock :
       ConvertNotebookOutputs(notebookOutputs, now)

SpecParser == InitParser /\ [][NextParser]_vars

----------------------------------------------------------------------------
(* ThreeJupyterComponent: the windows of a notebook *)

RECURSIVE split(_, _)
\* s.split(separator), separator a single character
split(s, separator) ==
  LET at == {i \in 1..Len(s) : SubSeq(s, i, i) = separator}
  IN IF at = {} THEN <<s>>
     ELSE LET first == CHOOSE i \in at : \A j \in at : i <= j
          IN <<SubSeq(s, 1, first - 1)>> \o split(SubSeq(s, first + 1, Len(s)), separator)

WhiteSpace == {" ", "\n", "\t"}

RECURSIVE trimStart(_)
trimStart(s) == IF s # "" /\ Head(s) \in WhiteSpace THEN trimStart(Tail(s)) ELSE s

RECURSIVE trimEnd(_)
trimEnd(s) ==
  IF s # "" /\ SubSeq(s, Len(s), Len(s)) \in WhiteSpace
  THEN trimEnd(SubSeq(s, 1, Len(s) - 1)) ELSE s

\* s.trim()
trim(s) == trimEnd(trimStart(s))

\* an array of strings as JSON values
Strings(lines) == [i \in DOMAIN lines |-> JString(lines[i])]

\* an optional argument
NotGiven == [given |-> FALSE]
Given(v) == [given |-> TRUE, value |-> v]

\* the registry of a result
AsRegistry(res) == [windows |-> res.windows, nextId |-> res.nextId,
                    maxZIndex |-> res.maxZIndex, listeners |-> res.listeners]

\* createWindow(type, title, content, linkedWindowId, initialOutputs) keeps the
\* initialOutputs it is given in the record of the new window
keepInitialOutputs(all, id, given) ==
  IF given.given THEN (id :> given.value) @@ all ELSE all

\* the entries of the records that are live
OfLive(all, ws) == [id \in {i \in DOMAIN all : Has(ws, i)} |-> all[id]]

\* the window objects a render has seen are the objects of the registry: those that
\* are live show their fields as they are now
Shared(seen, ws) ==
  [i \in DOMAIN seen |-> IF Has(ws, seen[i].id) THEN Get(ws, seen[i].id) ELSE seen[i]]

\* createOutputWindow as a closure over the windows state seen
createOutputWindow(r, seen, editorWindowId) ==
  IF ~Has(r.windows, editorWindowId) THEN [created |-> FALSE, registry |-> r]
  ELSE IF \E i \in DOMAIN seen :
            seen[i].type = "output" /\ seen[i].linkedWindowId = editorWindowId
  THEN [created |-> FALSE, registry |-> r]
  ELSE
    LET editorWindow == Get(r.windows, editorWindowId)
        title == "Output: " \o editorWindow.title
        outputX == editorWindow.x + editorWindow.width + OutputGap
        outputY == editorWindow.y
        made == createWindow(r, "output", title, "", editorWindowId)
        moved == updatePosition(AsRegistry(made), made.ret, outputX, outputY)
    IN [created |-> TRUE, outputId |-> made.ret, registry |-> AsRegistry(moved)]

RECURSIVE createEditors(_, _, _, _, _)
\* codeCells.forEach((cell, index) => ...): the registry, the timers set, and
\* whether convertNotebookOutputs threw
createEditors(r, codeCells, index, pending, now) ==
  IF codeCells = <<>> THEN [threw |-> FALSE, registry |-> r, timers |-> pending]
  ELSE
    LET cell == Head(codeCells)
        source == Prop(cell, "source").v
        title == "Code Cell " \o ToString(index + 1)
        made == createWindow(r, "editor", title, source, undefined)
        windowId == made.ret
        cellOutputs == Prop(cell, "outputs")
        hasOutputs == /\ Truthy(cellOutputs)
                      /\ cellOutputs.t \in {"array", "string"}
                      /\ Len(cellOutputs.v) > 0
        outputItems == convertNotebookOutputs(cellOutputs, now)
    IN IF ~hasOutputs
       THEN createEditors(AsRegistry(made), Tail(codeCells), index + 1, pending, now)
       ELSE IF outputItems.threw
       THEN [threw |-> TRUE, registry |-> AsRegistry(made), timers |-> pending]
       ELSE createEditors(AsRegistry(made), Tail(codeCells), index + 1,
                          Append(pending, [windowId |-> windowId,
                                           outputItems |-> outputItems.value]), now)

RECURSIVE createMarkdowns(_, _, _)
\* markdownCells.forEach((cell, index) => ...)
createMarkdowns(r, markdownCells, index) ==
  IF markdownCells = <<>> THEN r
  ELSE
    LET cell == Head(markdownCells)
        source == Prop(cell, "source").v
        title == "Markdown " \o ToString(index + 1)
    IN createMarkdowns(AsRegistry(createWindow(r, "markdown", title, source, undefined)),
                       Tail(markdownCells), index + 1)

\* the item handleIOPub makes of a message of the kernel
ioPubItem(msg, now) ==
  LET msgType == msg.header.msg_type
      content == msg.content
  IN CASE msgType = "stream" -> Item("stream", Or(Prop(content, "text"), JString("")), now)
       [] msgType \in {"execute_result", "display_data"} ->
            LET data == Prop(content, "data")
            IN Item(msgType,
                    IF Truthy(Prop(data, "text/html")) THEN Prop(data, "text/html")
                    ELSE IF Truthy(Prop(data, "text/plain")) THEN Prop(data, "text/plain")
                    ELSE IF Truthy(Prop(data, "image/png"))
                    THEN JString("<img src=\"data:image/png;base64," \o
                                 String(Prop(data, "image/png")) \o "\" />")
                    ELSE IF Truthy(Prop(data, "image/jpeg"))
                    THEN JString("<img src=\"data:image/jpeg;base64," \o
                                 String(Prop(data, "image/jpeg")) \o "\" />")
                    ELSE JString(stringify(data, "")), now)
       [] msgType = "error" ->
            Item("error",
                 JString(String(Prop(content, "ename")) \o ": " \o
                         String(Prop(content, "evalue")) \o "\n" \o
                         (IF Truthy(Prop(content, "traceback"))
                          THEN join(Prop(content, "traceback").v, "\n") ELSE "")), now)
       [] OTHER -> NoItem

\* the notebook outputs saveNotebook makes of one OutputItem
notebookOutput(outputItem) ==
  CASE outputItem.type = "stream" ->
         <<JObject([output_type |-> JString("stream"), name |-> JString("stdout"),
                    text |-> JArray(Strings(split(outputItem.content.v, "\n")))])>>
    [] outputItem.type \in {"execute_result", "display_data"} ->
         <<JObject([output_type |-> JString(outputItem.type),
                    data |-> JObject("text/plain" :> JArray(<<outputItem.content>>)),
                    metadata |-> JObject(<<>>)])>>
    [] outputItem.type = "error" ->
         LET lines == split(outputItem.content.v, "\n")
             ename == Or(JString(split(lines[1], ":")[1]), JString("Error"))
             evalue == Or(JString(trim(join(Strings(Tail(split(lines[1], ":"))), ":"))),
                          JString(""))
         IN <<JObject([output_type |-> JString("error"), ename |-> ename,
                       evalue |-> evalue, traceback |-> JArray(Strings(Tail(lines)))])>>
    [] OTHER -> <<>>

RECURSIVE notebookOutputsOf(_)
\* outputWindow.initialOutputs.forEach((outputItem) => ...)
notebookOutputsOf(items) ==
  IF items = <<>> THEN <<>>
  ELSE notebookOutput(Head(items)) \o notebookOutputsOf(Tail(items))

\* the code cell of an editor window
codeCell(window, allWindows, initials) ==
  LET source == IF window.content = "" THEN "" ELSE window.content
      linked(w) == w.type = "output" /\ w.linkedWindowId = window.id
      found == SelectSeq(allWindows, linked)
  IN JObject([cell_type |-> JString("code"),
              source |-> JArray(Strings(split(source, "\n"))),
              metadata |-> JObject(<<>>),
              execution_count |-> JNull,
              outputs |-> IF found # <<>> /\ Head(found).id \in DOMAIN initials
                          THEN JArray(notebookOutputsOf(initials[Head(found).id]))
                          ELSE JArray(<<>>)])

\* the markdown cell of a markdown window
markdownCell(window) ==
  LET source == IF window.content = "" THEN "" ELSE window.content
  IN JObject([cell_type |-> JString("markdown"),
              source |-> JArray(Strings(split(source, "\n"))),
              metadata |-> JObject(<<>>)])

DefaultMetadata ==
  JObject([kernelspec |-> JObject([display_name |-> JString("Python 3"),
                                   language |-> JString("python"),
                                   name |-> JString("python3")]),
           language_info |-> JObject([name |-> JString("python"),
                                      version |-> JString("3.0.0")])])

\* saveNotebook, were the cells written in the order of the windows
saveNotebook_InWindowOrder(allWindows, initials, currentNotebook) ==
  LET cellOf(w) == IF w.type = "editor" THEN codeCell(w, allWindows, initials)
                   ELSE markdownCell(w)
      serialized(w) == w.type \in {"editor", "markdown"}
      kept == SelectSeq(allWindows, serialized)
  IN JObject([cells |-> JArray([i \in DOMAIN kept |-> cellOf(kept[i])]),
              metadata |-> Or(Prop(currentNotebook, "metadata"), DefaultMetadata),
              nbformat |-> Or(Prop(currentNotebook, "nbformat"), JNumber(NbFormat)),
              nbformat_minor |-> Or(Prop(currentNotebook, "nbformat_minor"),
                                    JNumber(NbFormatMinor))])

\* the notebookData that saveNotebook gives to model.fromJSON
saveNotebook(allWindows, initials, currentNotebook) ==
  LET editor(w) == w.type = "editor"
      markdown(w) == w.type = "markdown"
      editorWindows == SelectSeq(allWindows, editor)
      markdownWindows == SelectSeq(allWindows, markdown)
      cells == [i \in DOMAIN editorWindows |->
                  codeCell(editorWindows[i], allWindows, initials)] \o
               [i \in DOMAIN markdownWindows |-> markdownCell(markdownWindows[i])]
  IN JObject([cells |-> JArray(cells),
              metadata |-> Or(Prop(currentNotebook, "metadata"), DefaultMetadata),
              nbformat |-> Or(Prop(currentNotebook, "nbformat"), JNumber(NbFormat)),
              nbformat_minor |-> Or(Prop(currentNotebook, "nbformat_minor"),
                                    JNumber(NbFormatMinor))])

----------------------------------------------------------------------------
(* The handlers of the widget *)

\* the notebooks a widget is opened on
WidgetNotebooks ==
  {JObject([cells |-> JArray(<<>>)]),
   JObject([cells |-> JArray(<<
              JObject([cell_type |-> JString("markdown"), source |-> JString("# t")]),
              JObject([cell_type |-> JString("code"),
                       source |-> JArray(<<JString("a\n"), JString("b")>>),
                       outputs |-> JArray(<<JObject([output_type |-> JString("stream"),
                                                     name |-> JString("stdout"),
                                                     text |-> JString("s\n")])>>)])>>),
            metadata |-> JObject([kernelspec |-> JObject([name |-> JString("ir")])]),
            nbformat |-> JNumber(4),
            nbformat_minor |-> JNumber(5)]),
   JObject([cells |-> JArray(<<>>),
            metadata |-> JObject(<<>>),
            nbformat |-> JNumber(4),
            nbformat_minor |-> JNumber(0)])}

\* what is typed into an editor
WidgetContents == {"x\ny"}

NewEditorContent == "print(\"Hello, Jupyter!\")"
NewMarkdownContent == "# Markdown\n\nEdit me..."

\* the messages of the kernel on the iopub channel
KernelMessages ==
  {[header |-> [msg_type |-> "stream"],
    content |-> JObject([name |-> JString("stdout"), text |-> JString("hi\n")])],
   [header |-> [msg_type |-> "error"],
    content |-> JObject([ename |-> JString("NameError"), evalue |-> JString("no: x"),
                         traceback |-> JArray(<<JString("l1"), JString("l2")>>)])],
   [header |-> [msg_type |-> "status"],
    content |-> JObject([execution_state |-> JString("idle")])]}

\* the value of Date.now() in the widget
WidgetClock == {2}

\* the timer of the mount effect has fired and its startKernel has succeeded at once
KernelReady ==
  /\ mounted = TRUE
  /\ initTimer = "fired"
  /\ initializationAttempted = TRUE
  /\ isInitializing = FALSE
  /\ isKernelReady = TRUE
  /\ kernelRef = KernelId(1)
  /\ kernels = <<[shutdown |-> FALSE]>>
  /\ starts = <<>>
  /\ stops = <<>>

\* a ThreeJupyterComponent on a notebook, after initializeScene and startKernel: an
\* empty registry with the setWindows listener, a kernel, nothing loaded yet
InitWidget ==
  /\ windows = <<>>
  /\ nextId = InitialNextId
  /\ maxZIndex = InitialMaxZIndex
  /\ listeners = {"L1"}
  /\ received = NoCalls
  /\ last = [name |-> "new", id |-> undefined, ret |-> undefined, again |-> -1]
  /\ before = [windows |-> <<>>, nextId |-> InitialNextId,
               maxZIndex |-> InitialMaxZIndex, listeners |-> {"L1"}, handles |-> <<>>]
  /\ issued = <<>>
  /\ zLog = <<>>
  /\ handles = <<>>
  /\ left = MaxWidgetSteps
  /\ call = NoCall
  /\ model \in WidgetNotebooks
  /\ loaded = FALSE
  /\ timers = <<>>
  /\ rendered = <<>>
  /\ initialOutputs = <<>>
  /\ outputs = <<>>
  /\ executing = {}
  /\ executions = <<>>
  /\ repositioned = {}
  /\ mountedWith = <<>>
  /\ KernelReady

\* a handler that leaves the registry as reg; its listener calls setWindows
Handled(name, id, reg) ==
  /\ windows' = reg.windows
  /\ nextId' = reg.nextId
  /\ maxZIndex' = reg.maxZIndex
  /\ rendered' = Shared(rendered, reg.windows)
  /\ last' = Call(name, id, undefined)
  /\ repositioned' = repositioned \cup
                     {reg.windows[i].id : i \in {j \in DOMAIN reg.windows :
                                                   reg.windows[j].type = "output"}}
  /\ UNCHANGED <<listeners, received, before, issued, zLog, handles, call>>

\* the mounted components of the given type
Mounted(type) == {rendered[i].id : i \in {j \in DOMAIN rendered : rendered[j].type = type}}

\* loadNotebook, once the context is ready and the registry exists
LoadNotebook(now) ==
  /\ ~loaded
  /\ parseNotebook(model).value # <<>>
  /\ Counted(TRUE)
  /\ LET cells == parseNotebook(model).value
         cleared == AsRegistry(clearAllWindows(Registry))
         categorized == categorizeCells(cells).value
         editors == createEditors(cleared, categorized.codeCells, 0, <<>>, now)
         reg == IF editors.threw THEN editors.registry
                ELSE createMarkdowns(editors.registry, categorized.markdownCells, 0)
     IN /\ Handled("loadNotebook", undefined, reg)
        /\ timers' = timers \o editors.timers
        /\ loaded' = ~editors.threw
        /\ initialOutputs' = OfLive(initialOutputs, reg.windows)
  /\ UNCHANGED <<model, outputs, executing, executions, mountedWith, kernelVars>>

\* setTimeout(() => createOutputWindow(windowId, outputItems), 200): the closure of
\* the render in which the effect ran, whose windows state is empty
TimerFires ==
  /\ timers # <<>>
  /\ LET timer == Head(timers)
         made == createOutputWindow(Registry, <<>>, timer.windowId)
     IN /\ Handled("createOutputWindow", timer.windowId, made.registry)
        /\ initialOutputs' =
             IF made.created
             THEN keepInitialOutputs(initialOutputs, made.outputId, Given(timer.outputItems))
             ELSE initialOutputs
  /\ timers' = Tail(timers)
  /\ UNCHANGED <<left, model, loaded, outputs, executing, executions, mountedWith,
                 kernelVars>>

\* React renders the component with the list the listener was last called with:
\* components of new windows mount, those of removed windows unmount
Render ==
  /\ rendered # windows
  /\ rendered' = windows
  /\ outputs' = [id \in {windows[i].id : i \in {j \in DOMAIN windows :
                                                  windows[j].type = "output"}} |->
                   IF id \in DOMAIN outputs THEN outputs[id]
                   ELSE IF id \in DOMAIN initialOutputs THEN initialOutputs[id]
                   ELSE <<>>]
  /\ executing' = executing \cap {windows[i].id : i \in DOMAIN windows}
  /\ mountedWith' = [id \in {windows[i].id : i \in {j \in DOMAIN windows :
                                                      windows[j].type = "editor"}} |->
                       IF id \in DOMAIN mountedWith THEN mountedWith[id] ELSE windows]
  /\ UNCHANGED <<registryVars, call, model, loaded, timers, initialOutputs, executions,
                 kernelVars>>

CreateEditorWindow ==
  /\ Counted(TRUE)
  /\ LET count == Cardinality(Mounted("editor"))
         title == IF count = 0 THEN "Code Cell" ELSE "Code Cell " \o ToString(count + 1)
     IN Handled("createEditorWindow", undefined,
                AsRegistry(createWindow(Registry, "editor", title, NewEditorContent,
                                        undefined)))
  /\ UNCHANGED <<model, loaded, timers, initialOutputs, outputs, executing, executions,
                 mountedWith, kernelVars>>

CreateMarkdownWindow ==
  /\ Counted(TRUE)
  /\ LET count == Cardinality(Mounted("markdown"))
         title == IF count = 0 THEN "Markdown" ELSE "Markdown " \o ToString(count + 1)
     IN Handled("createMarkdownWindow", undefined,
                AsRegistry(createWindow(Registry, "markdown", title, NewMarkdownContent,
                                        undefined)))
  /\ UNCHANGED <<model, loaded, timers, initialOutputs, outputs, executing, executions,
                 mountedWith, kernelVars>>

\* typing in the editor of a mounted editor or markdown window
HandleUpdateContent(id, content) ==
  /\ id \in Mounted("editor") \cup Mounted("markdown")
  /\ Counted(TRUE)
  /\ Handled("handleUpdateContent", id, AsRegistry(updateContent(Registry, id, content)))
  /\ UNCHANGED <<model, loaded, timers, initialOutputs, outputs, executing, executions,
                 mountedWith, kernelVars>>

\* the close button of a mounted window
HandleCloseWindow(id) ==
  /\ \E i \in DOMAIN rendered : rendered[i].id = id
  /\ Counted(TRUE)
  /\ LET reg == AsRegistry(closeWindow(Registry, id))
     IN /\ Handled("handleCloseWindow", id, reg)
        /\ initialOutputs' = OfLive(initialOutputs, reg.windows)
  /\ UNCHANGED <<model, loaded, timers, outputs, executing, executions, mountedWith,
                 kernelVars>>

\* the run button of a mounted editor window, the kernel being connected
HandleExecute(id) ==
  /\ id \in Mounted("editor")
  /\ id \notin executing
  /\ LET windowData == rendered[CHOOSE i \in DOMAIN rendered : rendered[i].id = id]
         code == windowData.content
         made == IF windowData.linkedWindowId = undefined
                 THEN createOutputWindow(Registry, rendered, id)
                 ELSE [created |-> FALSE, registry |-> Registry]
     IN /\ trim(code) # ""
        /\ Counted(TRUE)
        /\ Handled("handleExecute", id, made.registry)
        /\ executing' = executing \cup {id}
        /\ executions' = Append(executions, [editor |-> id, code |-> code, done |-> FALSE])
  /\ UNCHANGED <<model, loaded, timers, initialOutputs, outputs, mountedWith, kernelVars>>

\* Ctrl+Enter in the Monaco editor of a mounted editor window: the command added by
\* the mount effect calls the handleExecute of the first render of the component, in
\* which isExecuting is false and onCreateOutputWindow is the createOutputWindow of
\* the render of ThreeJupyterComponent that mounted it
HandleCtrlEnter(id) ==
  /\ id \in Mounted("editor")
  /\ id \in DOMAIN mountedWith
  /\ LET windowData == rendered[CHOOSE i \in DOMAIN rendered : rendered[i].id = id]
         code == windowData.content
         made == IF windowData.linkedWindowId = undefined
                 THEN createOutputWindow(Registry, mountedWith[id], id)
                 ELSE [created |-> FALSE, registry |-> Registry]
     IN /\ trim(code) # ""
        /\ Counted(TRUE)
        /\ Handled("handleExecute", id, made.registry)
        /\ executing' = executing \cup {id}
        /\ executions' = Append(executions, [editor |-> id, code |-> code, done |-> FALSE])
  /\ UNCHANGED <<model, loaded, timers, initialOutputs, outputs, mountedWith, kernelVars>>

\* the requests the kernel has not finished
Running == {i \in DOMAIN executions : ~executions[i].done}

\* the kernel sends a message while it works on a request: handleIOPub of every
\* mounted output window gets it
KernelSends(msg, now) ==
  /\ Running # {}
  /\ Counted(TRUE)
  /\ LET made == ioPubItem(msg, now)
     IN outputs' = [id \in DOMAIN outputs |->
                      IF made.none THEN outputs[id] ELSE Append(outputs[id], made.item)]
  /\ last' = Call("handleIOPub", undefined, undefined)
  /\ UNCHANGED <<windows, nextId, maxZIndex, listeners, received, before, issued, zLog, handles,
                 repositioned, mountedWith, kernelVars,
                 call, model, loaded, timers, rendered, initialOutputs, executing,
                 executions>>

\* future.done of the oldest request: setIsExecuting(false)
ExecutionDone ==
  /\ Running # {}
  /\ LET i == CHOOSE i \in Running : \A j \in Running : i <= j
     IN /\ executions' = [executions EXCEPT ![i].done = TRUE]
        /\ executing' = executing \ {executions[i].editor}
  /\ UNCHANGED <<registryVars, call, model, loaded, timers, rendered, initialOutputs,
                 outputs, mountedWith, kernelVars>>

\* the clear button of a mounted output window
HandleClearOutput(id) ==
  /\ id \in DOMAIN outputs
  /\ outputs[id] # <<>>
  /\ Counted(TRUE)
  /\ outputs' = [outputs EXCEPT ![id] = <<>>]
  /\ last' = Call("handleClearOutput", id, undefined)
  /\ UNCHANGED <<windows, nextId, maxZIndex, listeners, received, before, issued, zLog, handles,
                 repositioned, mountedWith, kernelVars,
                 call, model, loaded, timers, rendered, initialOutputs, executing,
                 executions>>

\* saveNotebook, the context and its model being there and not disposed
SaveNotebook ==
  /\ Counted(TRUE)
  /\ model' = saveNotebook(getAllWindows, initialOutputs, model)
  /\ last' = Call("saveNotebook", undefined, undefined)
  /\ UNCHANGED <<windows, nextId, maxZIndex, listeners, received, before, issued, zLog, handles,
                 repositioned, mountedWith, kernelVars,
                 call, loaded, timers, rendered, initialOutputs, outputs, executing,
                 executions>>

NextWidget ==
  \/ \E now \in WidgetClock : LoadNotebook(now)
  \/ TimerFires
  \/ Render
  \/ CreateEditorWindow
  \/ CreateMarkdownWindow
  \/ \E id \in IdArgs, content \in WidgetContents : HandleUpdateContent(id, content)
  \/ \E id \in IdArgs : HandleCloseWindow(id)
  \/ \E id \in IdArgs : HandleExecute(id)
  \/ \E id \in IdArgs : HandleCtrlEnter(id)
  \/ \E msg \in KernelMessages, now \in WidgetClock : KernelSends(msg, now)
  \/ ExecutionDone
  \/ \E id \in IdArgs : HandleClearOutput(id)
  \/ SaveNotebook

SpecWidget == InitWidget /\ [][NextWidget]_vars

----------------------------------------------------------------------------
(* ThreeJupyterComponent: the kernel *)

\* the text of '不明なエラー', which stands for a failure without a message
UnknownError == "unknown error"

\* what a rejection of startNew carries in err.message
FailureMessages == {"", "refused"}

\* the loop test of startKernelWithRetry: the next call of startNew, or, the attempts
\* used up, the throw of the error (retries and the detail of its message)
attempt(c) ==
  IF c.i < c.retries
  THEN [c EXCEPT !.pc = "startNew", !.log = Append(@, [e |-> "startNew"])]
  ELSE LET detail == IF c.lastError # null /\ c.lastError # ""
                     THEN c.lastError ELSE UnknownError
       IN [c EXCEPT !.pc = "thrown",
                    !.log = Append(@, [e |-> "throw", retries |-> c.retries,
                                       detail |-> detail])]

\* startKernelWithRetry(manager, retries, delay) up to its first await
startKernelWithRetry(retries, delay) ==
  attempt([retries |-> retries, delay |-> delay, i |-> 0, lastError |-> null,
           pc |-> "entry", log |-> <<>>])

\* startNew has resolved with kernel: return kernel
resolved(c, kernel) ==
  [c EXCEPT !.pc = "returned",
            !.log = @ \o <<[e |-> "resolved", kernel |-> kernel],
                           [e |-> "return", kernel |-> kernel]>>]

\* startNew has rejected, were the first delay taken from i = 0
rejected_DelayFromZero(c, message) ==
  LET failed == [c EXCEPT !.lastError = message,
                          !.log = Append(@, [e |-> "rejected", message |-> message])]
      isLastAttempt == c.i = c.retries - 1
  IN IF isLastAttempt THEN attempt([failed EXCEPT !.i = c.retries])
     ELSE [failed EXCEPT !.pc = "wait",
                         !.log = Append(@, [e |-> "wait", ms |-> c.delay * c.i])]

\* startNew has rejected with err: the catch block, which breaks out of the loop
\* after the last attempt and else sets the timer of the next one
rejected(c, message) ==
  LET failed == [c EXCEPT !.lastError = message,
                          !.log = Append(@, [e |-> "rejected", message |-> message])]
      isLastAttempt == c.i = c.retries - 1
  IN IF isLastAttempt THEN attempt([failed EXCEPT !.i = c.retries])
     ELSE [failed EXCEPT !.pc = "wait",
                         !.log = Append(@, [e |-> "wait", ms |-> c.delay * (c.i + 1)])]

\* the timer of the retry has fired: i++ and the loop test
elapsed(c) == attempt([c EXCEPT !.i = @ + 1])

\* the calls of startKernel that await startKernelWithRetry
InFlight == {s \in DOMAIN starts : starts[s].pc \in {"startNew", "wait"}}

\* setState of a component that is unmounted does nothing
SetState(current, value) == IF mounted THEN value ELSE current

\* startKernel up to its await, as the closure of a render in which isInitializing
\* had the given value
startKernel(closureIsInitializing) ==
  IF closureIsInitializing THEN UNCHANGED <<isInitializing, starts>>
  ELSE /\ isInitializing' = SetState(isInitializing, TRUE)
       /\ starts' = Append(starts, startKernelWithRetry(DefaultRetries, DefaultDelay))

\* stopKernel up to its await
stopKernel ==
  IF kernelRef # null
  THEN /\ kernels' = [kernels EXCEPT ![CHOOSE n \in DOMAIN kernels :
                                         KernelId(n) = kernelRef].shutdown = TRUE]
       /\ stops' = Append(stops, kernelRef)
  ELSE UNCHANGED <<kernels, stops>>

\* a ThreeJupyterComponent that has just mounted: the timer of the mount effect is set
Mount ==
  /\ mounted = TRUE
  /\ initTimer = "pending"
  /\ initializationAttempted = FALSE
  /\ isInitializing = FALSE
  /\ isKernelReady = FALSE
  /\ kernelRef = null
  /\ kernels = <<>>
  /\ starts = <<>>
  /\ stops = <<>>

InitKernel ==
  InitRegistry /\ left = 0 /\ call = NoCall /\ NoWidget /\ Mount

notKernelVars == <<registryVars, call, model, loaded, timers, rendered, initialOutputs,
                   outputs, executing, executions, mountedWith>>

\* the timer of the mount effect fires: its closure is that of the first render,
\* in which isInitializing is false
InitTimerFires ==
  /\ initTimer = "pending"
  /\ Len(starts) < MaxStarts
  /\ initTimer' = "fired"
  /\ IF ~initializationAttempted
     THEN /\ initializationAttempted' = TRUE
          /\ startKernel(FALSE)
     ELSE UNCHANGED <<initializationAttempted, isInitializing, starts>>
  /\ UNCHANGED <<notKernelVars, mounted, isKernelReady, kernelRef, kernels, stops>>

\* a click on the start button, which is shown while isKernelReady is false and is
\* disabled while isInitializing is true
ClickStart ==
  /\ mounted
  /\ ~isKernelReady
  /\ ~isInitializing
  /\ Len(starts) < MaxStarts
  /\ startKernel(isInitializing)
  /\ UNCHANGED <<notKernelVars, mounted, initTimer, initializationAttempted, isKernelReady,
                 kernelRef, kernels, stops>>

\* manager.startNew resolves for the call s: startKernelWithRetry returns the kernel
\* and startKernel goes on to its end
StartNewResolves(s) ==
  /\ s \in DOMAIN starts
  /\ starts[s].pc = "startNew"
  /\ LET kernel == KernelId(Len(kernels) + 1)
     IN /\ kernels' = Append(kernels, [shutdown |-> FALSE])
        /\ starts' = [starts EXCEPT ![s] = resolved(@, kernel)]
        /\ kernelRef' = kernel
  /\ isKernelReady' = SetState(isKernelReady, TRUE)
  /\ isInitializing' = SetState(isInitializing, FALSE)
  /\ UNCHANGED <<notKernelVars, mounted, initTimer, initializationAttempted, stops>>

\* manager.startNew rejects for the call s; when startKernelWithRetry throws,
\* startKernel goes on to its end
StartNewRejects(s, message) ==
  /\ s \in DOMAIN starts
  /\ starts[s].pc = "startNew"
  /\ starts' = [starts EXCEPT ![s] = rejected(@, message)]
  /\ isInitializing' = IF starts'[s].pc = "thrown" THEN SetState(isInitializing, FALSE)
                       ELSE isInitializing
  /\ UNCHANGED <<notKernelVars, mounted, initTimer, initializationAttempted, isKernelReady,
                 kernelRef, kernels, stops>>

\* the timer of a retry of the call s fires
DelayElapses(s) ==
  /\ s \in DOMAIN starts
  /\ starts[s].pc = "wait"
  /\ starts' = [starts EXCEPT ![s] = elapsed(@)]
  /\ UNCHANGED <<notKernelVars, mounted, initTimer, initializationAttempted, isInitializing,
                 isKernelReady, kernelRef, kernels, stops>>

\* a click on the stop button, which is shown while isKernelReady is true; it is
\* not clicked again for a kernel whose shutdown is awaited
ClickStop ==
  /\ mounted
  /\ isKernelReady
  /\ kernelRef \notin {stops[i] : i \in DOMAIN stops}
  /\ kernelRef # null
  /\ stopKernel
  /\ UNCHANGED <<notKernelVars, mounted, initTimer, initializationAttempted, isInitializing,
                 isKernelReady, kernelRef, starts>>

\* the shutdown() the oldest stopKernel awaits settles: resolved, stopKernel goes on
\* to its end; rejected, it logs the error
ShutdownSettles(ok) ==
  /\ stops # <<>>
  /\ stops' = Tail(stops)
  /\ kernelRef' = IF ok THEN null ELSE kernelRef
  /\ isKernelReady' = IF ok THEN SetState(isKernelReady, FALSE) ELSE isKernelReady
  /\ UNCHANGED <<notKernelVars, mounted, initTimer, initializationAttempted, isInitializing,
                 kernels, starts>>

\* a kernel whose shutdown was asked for signals the status terminating to the
\* handler startKernel has connected
StatusChanged(n) ==
  /\ n \in DOMAIN kernels
  /\ kernels[n].shutdown
  /\ mounted
  /\ isKernelReady
  /\ isKernelReady' = FALSE
  /\ UNCHANGED <<notKernelVars, mounted, initTimer, initializationAttempted, isInitializing,
                 kernelRef, kernels, starts, stops>>

\* the cleanup of the mount effect: clearTimeout(initTimer) and cleanUp()
Unmount ==
  /\ mounted
  /\ mounted' = FALSE
  /\ initTimer' = IF initTimer = "pending" THEN "cleared" ELSE initTimer
  /\ stopKernel
  /\ UNCHANGED <<notKernelVars, initializationAttempted, isInitializing, isKernelReady,
                 kernelRef, starts>>

NextKernel ==
  \/ InitTimerFires
  \/ ClickStart
  \/ \E s \in 1..MaxStarts : StartNewResolves(s)
  \/ \E s \in 1..MaxStarts, message \in FailureMessages : StartNewRejects(s, message)
  \/ \E s \in 1..MaxStarts : DelayElapses(s)
  \/ ClickStop
  \/ \E ok \in BOOLEAN : ShutdownSettles(ok)
  \/ \E n \in 1..MaxStarts : StatusChanged(n)
  \/ Unmount

SpecKernel == InitKernel /\ [][NextKernel]_vars

----------------------------------------------------------------------------
(* Properties of the registry *)

Mutators == {"closeWindow", "minimizeWindow", "bringToFront", "updatePosition",
             "updateSize", "updateContent", "updateTitle"}

\* the last call was a mutating call that took effect
TookEffect ==
  \/ last.name \in {"createWindow", "clearAllWindows"}
  \/ last.name \in Mutators /\ Has(before.windows, last.id)

\* the last call closed a live editor record
ClosedEditor ==
  /\ last.name = "closeWindow"
  /\ Has(before.windows, last.id)
  /\ Get(before.windows, last.id).type = "editor"

\* C1: every live output record that has a linkedWindowId has a live editor record
\* with exactly that id
C1_LinkedEditorIsLive ==
  \A i \in DOMAIN windows :
    (windows[i].type = "output" /\ windows[i].linkedWindowId # undefined)
      => \E j \in DOMAIN windows :
           /\ windows[j].id = windows[i].linkedWindowId
           /\ windows[j].type = "editor"

\* C2: closeWindow of a live editor removes that record and every record linked to
\* it and leaves every other record as it was; the same closeWindow called again
\* right afterwards changes nothing
C2_CloseCascades ==
  /\ ClosedEditor =>
       LET stays(w) == w.id # last.id /\ w.linkedWindowId # last.id
       IN windows = SelectSeq(before.windows, stays)
  /\ (last.name = "closeWindow" /\ last.again >= 0) =>
       /\ windows = before.windows
       /\ nextId = before.nextId
       /\ maxZIndex = before.maxZIndex
       /\ listeners = before.listeners
       /\ received = NoCalls

\* the editor was closed together with a linked record, another record stayed, and
\* the same closeWindow was called again
C2_Witness ==
  /\ last.name = "closeWindow"
  /\ last.again >= 2
  /\ windows # <<>>

\* C3: the ids createWindow has returned are pairwise distinct
C3_IdsNeverReused ==
  \A i, j \in DOMAIN issued : i # j => issued[i] # issued[j]

\* a third id was handed out after the records of the first two were removed
C3_Witness ==
  /\ last.name = "createWindow"
  /\ Len(issued) = 3
  /\ Len(windows) = 1

\* C4: the zIndex createWindow assigns is greater than every zIndex that createWindow
\* or bringToFront assigned before, whether or not that record is still live
C4_CreateAboveAllGiven ==
  \A i \in DOMAIN zLog :
    zLog[i].by = "createWindow" => \A j \in 1..(i - 1) : zLog[j].z < zLog[i].z

\* createWindow after a bringToFront whose record has been removed since
C4_Witness ==
  /\ last.name = "createWindow"
  /\ Len(windows) = 1
  /\ \E j \in 1..(Len(zLog) - 1) : zLog[j].by = "bringToFront"

\* C5: no two distinct live records have the same zIndex
C5_ZIndexUnique ==
  \A i, j \in DOMAIN windows : i # j => windows[i].zIndex # windows[j].zIndex

\* three live records, one of them brought to front
C5_Witness ==
  /\ Len(windows) = 3
  /\ \E j \in DOMAIN zLog : zLog[j].by = "bringToFront"

\* the last call was bringToFront of a live record
Raised == last.name = "bringToFront" /\ Has(before.windows, last.id)

\* C6: bringToFront of a live record leaves it above every other live record and
\* above its own previous zIndex
C6_BringToFrontOnTop ==
  Raised =>
    LET w == Get(windows, last.id)
    IN /\ \A i \in DOMAIN windows :
            windows[i].id # last.id => windows[i].zIndex < w.zIndex
       /\ Get(before.windows, last.id).zIndex < w.zIndex

\* bringToFront of the record that was already the top one of several
C6_Witness ==
  /\ Raised
  /\ Len(windows) >= 2
  /\ \A i \in DOMAIN before.windows :
       before.windows[i].zIndex <= Get(before.windows, last.id).zIndex

\* the last call was a mutator given an id that was not live
OnUnknownId == last.name \in Mutators /\ ~Has(before.windows, last.id)

\* C7: a mutator given an id that is not live returns without raising, leaves the
\* records, nextId, maxZIndex and the listeners as they were and calls no listener
C7_UnknownIdIsNoOp ==
  OnUnknownId =>
    /\ last.ret = undefined
    /\ windows = before.windows
    /\ nextId = before.nextId
    /\ maxZIndex = before.maxZIndex
    /\ listeners = before.listeners
    /\ received = NoCalls

\* updateTitle of an id that was closed before, with records and listeners present
C7_Witness ==
  /\ OnUnknownId
  /\ last.name = "updateTitle"
  /\ \E i \in DOMAIN issued : issued[i] = last.id
  /\ windows # <<>>
  /\ listeners # {}

\* C8: a mutating call that takes effect calls every registered listener exactly
\* once, with the list of live records as it is after the call
C8_NotifiedOnce ==
  TookEffect =>
    \A l \in Listeners :
      received[l] = IF l \in before.listeners THEN <<getAllWindows>> ELSE <<>>

\* closeWindow that removed an editor and a linked record, with two listeners
C8_Witness ==
  /\ ClosedEditor
  /\ Len(before.windows) - Len(windows) >= 2
  /\ listeners = Listeners

\* the closure that the last call called
CalledHandle ==
  CHOOSE h \in DOMAIN before.handles : handles[h].called # before.handles[h].called

\* C9 as stated: once a closure returned by addListener has been called, its
\* listener is called by no later mutation, and calling the closure a second time
\* changes nothing
C9_Original ==
  /\ \A h \in DOMAIN before.handles :
       before.handles[h].called >= 1 => received[before.handles[h].listener] = <<>>
  /\ (last.name = "unregister" /\ before.handles[CalledHandle].called >= 1) =>
       listeners = before.listeners

\* C9: calling a closure returned by addListener removes its listener and no
\* other and changes nothing else; a listener that is not registered is called by
\* no mutation while every registered one is; calling a closure while its listener
\* is not registered changes nothing
C9_Unregistered ==
  /\ \A l \in Listeners \ before.listeners : received[l] = <<>>
  /\ TookEffect => \A l \in before.listeners : Len(received[l]) = 1
  /\ last.name = "unregister" =>
       /\ listeners = before.listeners \ {last.id}
       /\ windows = before.windows
       /\ nextId = before.nextId
       /\ maxZIndex = before.maxZIndex
       /\ received = NoCalls
  /\ (last.name = "unregister" /\ last.id \notin before.listeners) =>
       listeners = before.listeners

\* a mutation after L1's closure was called and L1 not registered again: L1 is not
\* called, L2 is
C9_Witness ==
  /\ TookEffect
  /\ \E h \in DOMAIN handles : handles[h].listener = "L1" /\ handles[h].called >= 1
  /\ "L1" \notin listeners
  /\ "L2" \in listeners
  /\ received["L1"] = <<>>
  /\ received["L2"] # <<>>

\* C10: createWindow puts the new record at x = y = 100 + 30 * n, n the number of
\* live records when it is called
C10_InitialPosition ==
  last.name = "createWindow" =>
    LET w == Get(windows, last.ret)
        n == Len(before.windows)
    IN w.x = 100 + 30 * n /\ w.y = 100 + 30 * n

\* createWindow with one live record left of the two created before
C10_Witness ==
  /\ last.name = "createWindow"
  /\ Len(issued) = 3
  /\ Len(before.windows) = 1

\* the fields of a record
Fields == {"id", "type", "title", "x", "y", "width", "height", "zIndex",
           "isMinimized", "content", "linkedWindowId"}

\* the fields each single-field mutator assigns
OwnFields ==
  [minimizeWindow |-> {"isMinimized"}, bringToFront |-> {"zIndex"},
   updatePosition |-> {"x", "y"}, updateSize |-> {"width", "height"},
   updateContent |-> {"content"}, updateTitle |-> {"title"}]

\* the last call was a single-field mutator on a live record
EditedLive == last.name \in DOMAIN OwnFields /\ Has(before.windows, last.id)

\* C11: minimizeWindow, bringToFront, updatePosition, updateSize, updateContent and
\* updateTitle on a live id leave every field of that record other than their own,
\* every other record, and the number and order of the records as they were;
\* minimizeWindow toggles isMinimized
C11_SingleField ==
  EditedLive =>
    /\ Len(windows) = Len(before.windows)
    /\ \A i \in DOMAIN windows :
         IF before.windows[i].id = last.id
         THEN \A f \in Fields \ OwnFields[last.name] :
                windows[i][f] = before.windows[i][f]
         ELSE windows[i] = before.windows[i]
    /\ last.name = "minimizeWindow" =>
         Get(windows, last.id).isMinimized = ~Get(before.windows, last.id).isMinimized

\* minimizeWindow of a linked output record that was minimized already, next to
\* another record
C11_Witness ==
  /\ EditedLive
  /\ last.name = "minimizeWindow"
  /\ Len(windows) >= 2
  /\ Get(before.windows, last.id).isMinimized
  /\ Get(windows, last.id).linkedWindowId # undefined

\* the (x, y) of a record
PositionOf(w) == <<w.x, w.y>>

\* C23: as long as updatePosition has moved no record, any two distinct live records
\* are at different positions
C23_DistinctPositions ==
  repositioned = {} =>
    \A i, j \in DOMAIN windows :
      i # j => PositionOf(windows[i]) # PositionOf(windows[j])

\* the record the last call has closed
Closed == Get(before.windows, last.id)

ClosedOther ==
  /\ last.name = "closeWindow"
  /\ Has(before.windows, last.id)
  /\ Closed.type \in {"output", "markdown"}

\* C24: closeWindow of a live output or markdown record removes that record and no
\* other: the editor it is linked to and the records linked to it stay as they were
C24_CloseOtherRemovesOne ==
  ClosedOther => windows = MapDelete(before.windows, last.id)

\* an output record is closed while the editor it is linked to and a record linked
\* to the output record are live
C24_Witness ==
  /\ ClosedOther
  /\ \E i, j \in DOMAIN before.windows :
       /\ i # j
       /\ before.windows[i].id = Closed.linkedWindowId
       /\ before.windows[i].type = "editor"
       /\ before.windows[j].linkedWindowId = last.id
       /\ before.windows[j].id # last.id
       /\ Has(windows, before.windows[j].id)

----------------------------------------------------------------------------
(* Properties of the parser *)

\* the document parseNotebook works on: the argument, or what its text stands for
DocumentOf(notebookData) ==
  IF notebookData.t # "string" THEN notebookData
  ELSE IF JSONparse(notebookData.v).threw THEN JUndefined
  ELSE JSONparse(notebookData.v).value

\* the document is an object that has a cells array
HasCellsArray(notebookData) ==
  /\ DocumentOf(notebookData).t = "object"
  /\ "cells" \in DOMAIN DocumentOf(notebookData).v
  /\ DocumentOf(notebookData).v.cells.t = "array"

\* the elements of the cells array of the document
CellsOf(notebookData) == DocumentOf(notebookData).v.cells.v

Parsed == call.fn = "parseNotebook"

\* C12: parseNotebook returns for every argument, and returns the empty array when
\* the argument has no cells array
C12_ParseNeverRaises ==
  Parsed =>
    /\ ~call.out.threw
    /\ ~HasCellsArray(call.arg) => call.out.value = <<>>

\* a cells array with a cell and an element that is null
C12_Witness ==
  /\ Parsed
  /\ HasCellsArray(call.arg)
  /\ \E i, j \in DOMAIN CellsOf(call.arg) :
       /\ CellsOf(call.arg)[i] = JNull
       /\ CellsOf(call.arg)[j].t = "object"
  /\ ~call.out.threw

CellTypes == {JString("code"), JString("markdown"), JString("raw")}

\* the element of a cells array is a cell with a recognized cell_type
Recognized(cell) ==
  cell.t = "object" /\ "cell_type" \in DOMAIN cell.v /\ cell.v.cell_type \in CellTypes

\* the text that the source of a cell stands for
RECURSIVE Concatenation(_)
Concatenation(lines) ==
  IF lines = <<>> THEN "" ELSE Head(lines).v \o Concatenation(Tail(lines))

LogicalSource(cell) ==
  IF "source" \notin DOMAIN cell.v THEN ""
  ELSE IF cell.v.source.t = "array" THEN Concatenation(cell.v.source.v)
  ELSE cell.v.source.v

\* C13: what parseNotebook returns is the cells of the cells array that have a
\* recognized cell_type, in their order, and nothing else
C13_ExactlyRecognized ==
  (Parsed /\ HasCellsArray(call.arg)) =>
    LET expected == SelectSeq(CellsOf(call.arg), Recognized)
    IN /\ Len(call.out.value) = Len(expected)
       /\ \A k \in DOMAIN expected :
            /\ call.out.value[k].v.cell_type = expected[k].v.cell_type
            /\ call.out.value[k].v.source = JString(LogicalSource(expected[k]))

\* the elements of the cells array that parseNotebook has a cell for
Kept(cell) == cell.t = "object" /\ "cell_type" \in DOMAIN cell.v /\ Truthy(cell.v.cell_type)

\* C14: the source of every cell parseNotebook returns is one string: the lines of
\* the cell's source one after the other, the cell's source if that is a string,
\* and the empty string if the cell has no source
C14_SourceIsOneString ==
  (Parsed /\ HasCellsArray(call.arg) /\ call.out.value # <<>>) =>
    LET origin == SelectSeq(CellsOf(call.arg), Kept)
    IN /\ Len(call.out.value) = Len(origin)
       /\ \A k \in DOMAIN origin :
            call.out.value[k].v.source = JString(LogicalSource(origin[k]))

\* cells with lines, with a string and without a source
C14_Witness ==
  /\ Parsed
  /\ HasCellsArray(call.arg)
  /\ Len(call.out.value) = 3
  /\ \E i, j, k \in 1..3 :
       /\ Prop(CellsOf(call.arg)[i], "source").t = "array"
       /\ call.out.value[i].v.source = JString("a\nb\n")
       /\ Prop(CellsOf(call.arg)[j], "source").t = "string"
       /\ Prop(CellsOf(call.arg)[k], "source") = JUndefined
       /\ call.out.value[k].v.source = JString("")

Categorized == call.fn = "categorizeCells"

\* C15: codeCells is the cells with cell_type code and markdownCells the cells with
\* cell_type markdown, each in the order of the argument; a cell of any other
\* cell_type is in neither
C15_StablePartition ==
  Categorized =>
    LET code(cell) == cell.v.cell_type = JString("code")
        markdown(cell) == cell.v.cell_type = JString("markdown")
        other(cell) == ~code(cell) /\ ~markdown(cell)
    IN /\ call.out.value.codeCells = SelectSeq(call.arg, code)
       /\ call.out.value.markdownCells = SelectSeq(call.arg, markdown)
       /\ \A i \in DOMAIN call.arg :
            other(call.arg[i]) =>
              /\ \A k \in DOMAIN call.out.value.codeCells :
                   call.out.value.codeCells[k] # call.arg[i]
              /\ \A k \in DOMAIN call.out.value.markdownCells :
                   call.out.value.markdownCells[k] # call.arg[i]

\* two different code cells around a raw cell
C15_Witness ==
  /\ Categorized
  /\ Len(call.arg) = 3
  /\ call.arg[2].v.cell_type = JString("raw")
  /\ Len(call.out.value.codeCells) = 2
  /\ call.out.value.codeCells[1] # call.out.value.codeCells[2]
  /\ call.out.value.markdownCells = <<>>

Converted == call.fn = "convertNotebookOutputs" /\ call.arg.t = "array"

OutputTypes == {JString("stream"), JString("execute_result"), JString("display_data"),
                JString("error")}

\* the outputs of the argument that have one of the four output types
Convertible(output) == Prop(output, "output_type") \in OutputTypes
ConvertibleOf(notebookOutputs) == SelectSeq(notebookOutputs.v, Convertible)

\* the property of an output is absent (or null)
Absent(output, k) == Prop(output, k) \in {JUndefined, JNull}

\* the text a string or a sequence of lines stands for
TextOf(v) == IF v.t = "array" THEN Concatenation(v.v) ELSE v.v

RECURSIVE NewlineJoined(_)
\* the lines, with a newline between every two of them
NewlineJoined(lines) ==
  IF lines = <<>> THEN ""
  ELSE IF Len(lines) = 1 THEN Head(lines).v
  ELSE Head(lines).v \o "\n" \o NewlineJoined(Tail(lines))

\* name: value, a newline, the traceback lines
ErrorTextOf(name, output) ==
  name \o ": " \o (IF Absent(output, "evalue") THEN "" ELSE output.v.evalue.v) \o "\n" \o
  (IF Absent(output, "traceback") THEN "" ELSE NewlineJoined(output.v.traceback.v))

\* every error output of the argument has an error item with the text that textOf
\* gives for it
ErrorItemsHave(textOf(_)) ==
  Converted =>
    /\ ~call.out.threw
    /\ Len(call.out.value) = Len(ConvertibleOf(call.arg))
    /\ \A k \in DOMAIN call.out.value :
         LET output == ConvertibleOf(call.arg)[k]
         IN output.v.output_type = JString("error") =>
              /\ call.out.value[k].type = "error"
              /\ call.out.value[k].content = JString(textOf(output))

\* C16 as stated: the text of the item of an error output is ename, ": ", evalue, a
\* newline and the traceback lines joined by newlines, with "Error" for an absent
\* ename and the empty string for an absent evalue
C16_Original ==
  LET textOf(output) ==
        ErrorTextOf(IF Absent(output, "ename") THEN "Error" ELSE output.v.ename.v, output)
  IN ErrorItemsHave(textOf)

\* C16: the same, with "Error" for an ename that is absent or the empty string
C16_ErrorText ==
  LET textOf(output) ==
        ErrorTextOf(IF Absent(output, "ename") \/ Prop(output, "ename") = JString("")
                    THEN "Error" ELSE output.v.ename.v, output)
  IN ErrorItemsHave(textOf)

\* an error output with ename, evalue and two traceback lines after one without ename
C16_Witness ==
  /\ Converted
  /\ Len(call.arg.v) = 2
  /\ Prop(call.arg.v[1], "output_type") = JString("error")
  /\ Absent(call.arg.v[1], "ename")
  /\ Len(call.out.value) = 2
  /\ call.out.value[2].content = JString("ValueError: bad\nl1\nl2")

\* the text of the first of the four entries that the data map has, else of all of it
DisplayTextOf(data) ==
  LET image(mime) == "<img src=\"data:" \o mime \o ";base64," \o TextOf(data.v[mime]) \o "\" />"
  IN IF "text/html" \in DOMAIN data.v THEN TextOf(data.v["text/html"])
     ELSE IF "text/plain" \in DOMAIN data.v THEN TextOf(data.v["text/plain"])
     ELSE IF "image/png" \in DOMAIN data.v THEN image("image/png")
     ELSE IF "image/jpeg" \in DOMAIN data.v THEN image("image/jpeg")
     ELSE stringify(data, "")

\* C17: the item of an execute_result or display_data output has the output's type
\* and the text of the first entry present in its data map, in the order text/html,
\* text/plain, image/png, image/jpeg, an image as an <img> reference with base64
\* data; the JSON text of the data map only if none of the four is present
C17_FirstPresentEntry ==
  Converted =>
    /\ ~call.out.threw
    /\ Len(call.out.value) = Len(ConvertibleOf(call.arg))
    /\ \A k \in DOMAIN call.out.value :
         LET output == ConvertibleOf(call.arg)[k]
         IN (/\ output.v.output_type \in {JString("execute_result"), JString("display_data")}
             /\ "data" \in DOMAIN output.v) =>
              /\ call.out.value[k].type = output.v.output_type.v
              /\ call.out.value[k].content = JString(DisplayTextOf(output.v.data))

\* C18: convertNotebookOutputs returns, without raising, one item for every output
\* of type stream, execute_result, display_data or error, of that type and in the
\* order of the outputs, and no item for any other output; the text of a stream
\* item is the text of the output, its lines put together
C18_OneItemPerKnownOutput ==
  Converted =>
    /\ ~call.out.threw
    /\ Len(call.out.value) = Len(ConvertibleOf(call.arg))
    /\ \A k \in DOMAIN call.out.value :
         LET output == ConvertibleOf(call.arg)[k]
         IN /\ call.out.value[k].type = output.v.output_type.v
            /\ output.v.output_type = JString("stream") =>
                 call.out.value[k].content =
                   JString(IF Absent(output, "text") THEN "" ELSE TextOf(output.v.text))

\* an output of an unknown type before a stream output with two lines
C18_Witness ==
  /\ Converted
  /\ Len(call.arg.v) = 2
  /\ Prop(call.arg.v[1], "output_type") = JString("update_display_data")
  /\ Len(call.out.value) = 1
  /\ call.out.value[1].type = "stream"
  /\ call.out.value[1].content = JString("a\nb")

----------------------------------------------------------------------------
(* Properties of the widget *)

Saved == last.name = "saveNotebook"

\* the cells of the document of the host
SavedCells == model.v.cells.v

EditorWindows == LET editor(w) == w.type = "editor" IN SelectSeq(windows, editor)
MarkdownWindows == LET markdown(w) == w.type = "markdown" IN SelectSeq(windows, markdown)

\* the cell is of the given cell_type and its source lines, with newlines between
\* them, are the content of the window
CellOf(cell, cellType, window) ==
  /\ cell.v.cell_type = JString(cellType)
  /\ NewlineJoined(cell.v.source.v) = window.content

\* C19: the document saveNotebook writes has one code cell for every live editor
\* window, in the order of the registry, then one markdown cell for every live
\* markdown window, in the order of the registry, and no other cell
C19_CellPerEditorAndMarkdown ==
  Saved =>
    /\ Len(SavedCells) = Len(EditorWindows) + Len(MarkdownWindows)
    /\ \A k \in DOMAIN EditorWindows : CellOf(SavedCells[k], "code", EditorWindows[k])
    /\ \A k \in DOMAIN MarkdownWindows :
         CellOf(SavedCells[Len(EditorWindows) + k], "markdown", MarkdownWindows[k])

\* a save with a markdown window before an editor window and its output window
C19_Witness ==
  /\ Saved
  /\ \E i, j, k \in DOMAIN windows :
       /\ i < j
       /\ windows[i].type = "markdown"
       /\ windows[j].type = "editor"
       /\ windows[k].type = "output"

\* the code of the editor window has been given to the kernel
Executed(id) == \E i \in DOMAIN executions : executions[i].editor = id

\* the output windows linked to the editor window, in the order of the registry
LinkedOutputs(id) ==
  LET linked(w) == w.type = "output" /\ w.linkedWindowId = id
  IN SelectSeq(windows, linked)

\* C20: once the code of an editor window has been executed and its output window
\* holds output items, the code cell that saveNotebook writes for the editor has
\* these items as its outputs
C20_SavedOutputsAreAccumulated ==
  Saved =>
    \A k \in DOMAIN EditorWindows :
      LET id == EditorWindows[k].id
      IN (/\ Executed(id)
          /\ LinkedOutputs(id) # <<>>
          /\ Head(LinkedOutputs(id)).id \in DOMAIN outputs
          /\ outputs[Head(LinkedOutputs(id)).id] # <<>>) =>
           SavedCells[k].v.outputs.v =
             notebookOutputsOf(outputs[Head(LinkedOutputs(id)).id])

\* the fields of the header of a notebook document and what saveNotebook writes
\* for a field the document of the host has not got
HeaderFields == {"metadata", "nbformat", "nbformat_minor"}

DefaultHeader(field) ==
  CASE field = "metadata" -> DefaultMetadata
    [] field = "nbformat" -> JNumber(NbFormat)
    [] field = "nbformat_minor" -> JNumber(NbFormatMinor)

\* C21: saveNotebook writes every header field the document of the host has with the
\* value it has there, whatever the value, and the default for a field it has not got
C21_HeaderCarried ==
  [][(last'.name = "saveNotebook" /\ model' # model) =>
       \A field \in HeaderFields :
         Prop(model', field) = IF Prop(model, field) # JUndefined
                               THEN Prop(model, field) ELSE DefaultHeader(field)]_vars

\* C25: parseNotebook of the document saveNotebook writes returns, for every editor
\* and markdown window, a cell whose source is the content of the window
C25_SourceRoundTrip ==
  Saved =>
    LET cells == parseNotebook(model).value
    IN /\ Len(cells) = Len(EditorWindows) + Len(MarkdownWindows)
       /\ \A k \in DOMAIN EditorWindows :
            Prop(cells[k], "source") = JString(EditorWindows[k].content)
       /\ \A k \in DOMAIN MarkdownWindows :
            Prop(cells[Len(EditorWindows) + k], "source") =
              JString(MarkdownWindows[k].content)

\* the types and the texts of output items, in order
TypesAndTexts(items) ==
  [i \in DOMAIN items |-> <<items[i].type, items[i].content>>]

\* C26: convertNotebookOutputs of the outputs saveNotebook writes for an editor window
\* returns items of the types and texts of the items convertNotebookOutputs had made
\* for its output window, in the same order
C26_OutputsRoundTrip ==
  Saved =>
    \A k \in DOMAIN EditorWindows :
      LET linked == LinkedOutputs(EditorWindows[k].id)
      IN (linked # <<>> /\ Head(linked).id \in DOMAIN initialOutputs) =>
           LET items == initialOutputs[Head(linked).id]
               again == convertNotebookOutputs(Prop(SavedCells[k], "outputs"),
                                               CHOOSE now \in WidgetClock : TRUE)
           IN /\ ~again.threw
              /\ TypesAndTexts(again.value) = TypesAndTexts(items)

\* the editor window whose code the kernel works on: that of its oldest request
EditorOfRunning ==
  executions[CHOOSE i \in Running : \A j \in Running : i <= j].editor

\* the editor windows with a mounted output window linked to them
EditorsWithOutput ==
  {rendered[i].linkedWindowId : i \in {j \in DOMAIN rendered : rendered[j].type = "output"}}
    \cap Mounted("editor")

\* C27: where two or more editor windows have an output window each, an output
\* window gets a new item only while the kernel works on the code of the editor
\* window it is linked to
C27_OnlyLinkedWindowReceives ==
  [][Cardinality(EditorsWithOutput) >= 2 =>
       \A id \in DOMAIN outputs \cap DOMAIN outputs' :
         Len(outputs'[id]) > Len(outputs[id]) =>
           /\ Running # {}
           /\ Get(rendered, id).linkedWindowId = EditorOfRunning]_vars

\* C28: every live editor window has at most one live output window linked to it
C28_OneOutputPerEditor ==
  \A k \in DOMAIN EditorWindows : Len(LinkedOutputs(EditorWindows[k].id)) <= 1

----------------------------------------------------------------------------
(* Properties of the kernel *)

\* the positions of the events of the given kind in a log
EventsOf(log, kind) == {p \in DOMAIN log : log[p].e = kind}

\* the number of rejections of startNew up to position p of a log
FailuresUpTo(log, p) == Cardinality({q \in EventsOf(log, "rejected") : q <= p})

\* the text occurs in the message
Carries(message, text) ==
  \E at \in 0..(Len(message) - Len(text)) : SubSeq(message, at + 1, at + Len(text)) = text

\* the log of a call of startKernelWithRetry(manager, retries, delay) is that of a
\* retry loop: startNew is called first and after every wait only; a resolution is
\* returned at once; the n-th rejection is followed by a wait of delay * n when
\* n < retries and by the throw of an error with its message when n = retries
RetryLog(log, retries, delay) ==
  /\ Cardinality(EventsOf(log, "startNew")) <= retries
  /\ \A p \in DOMAIN log :
       CASE log[p].e = "startNew" -> p = 1 \/ log[p - 1].e = "wait"
         [] log[p].e = "resolved" ->
              /\ log[p - 1].e = "startNew"
              /\ p + 1 = Len(log)
              /\ log[p + 1] = [e |-> "return", kernel |-> log[p].kernel]
         [] log[p].e = "return" -> p = Len(log) /\ log[p - 1].e = "resolved"
         [] log[p].e = "rejected" ->
              /\ log[p - 1].e = "startNew"
              /\ p < Len(log)
              /\ IF FailuresUpTo(log, p) < retries
                 THEN log[p + 1] = [e |-> "wait", ms |-> delay * FailuresUpTo(log, p)]
                 ELSE /\ FailuresUpTo(log, p) = retries
                      /\ p + 1 = Len(log)
                      /\ log[p + 1].e = "throw"
                      /\ log[p + 1].retries = retries
                      /\ Carries(log[p + 1].detail, log[p].message)
         [] log[p].e = "wait" -> log[p - 1].e = "rejected"
         [] log[p].e = "throw" -> p = Len(log) /\ log[p - 1].e = "rejected"
         [] OTHER -> FALSE

C29_OneStartInFlight == Cardinality(InFlight) <= 1

\* the kernels that run and whose shutdown() was never called
LeftRunning == {n \in DOMAIN kernels : ~kernels[n].shutdown}

\* C30: once the component is unmounted and every call of startKernel and of
\* stopKernel has finished, every kernel that was started has been asked to shut down
C30_NoKernelLeftRunning ==
  (~mounted /\ InFlight = {} /\ stops = <<>>) => LeftRunning = {}

====
